---- MODULE Spec2Model ----
(***************************************************************************)
(* netplan "diff" engine: NetplanDiffState (netplan_cli/cli/state_diff.py).*)
(*                                                                         *)
(* The engine is a pure computation over two snapshots: the live state     *)
(* (SystemConfigState: get_data() and interface_list) and the declared     *)
(* state (NetplanConfigState.netdefs).  The snapshots are drawn in Init;   *)
(* the actions are the public calls get_diff(interface) and                *)
(* get_full_state().  A command makes one call on its snapshots; the       *)
(* variables hold the last call and the value it returned.  The commands   *)
(* that consume a report are modelled as far as they read or write it:     *)
(* NetplanDiff.print_table (commands/diff.py) and the diff mode of         *)
(* NetplanStatus (commands/status.py).                                     *)
(*                                                                         *)
(* Representation.                                                         *)
(*   - A Python dict is a function; an absent key is absent from DOMAIN.   *)
(*     An ordered dict that the code iterates is a sequence of             *)
(*     <<key, value>> pairs (the snapshots) or carries the key order       *)
(*     beside the function (the result of get_full_state).                 *)
(*   - None, where a string is expected, is the value None below.          *)
(*   - The string 'ip/prefix' is the pair <<ip, prefix>>; formatting       *)
(*     builds the pair and ipaddress.ip_interface takes it apart.          *)
(*   - list(a_set) has no order Python specifies: SetToList fixes one and  *)
(*     no formula below reads the order of such a list.                    *)
(*   - A table name, which may be a str or an int, is [str |-> s] or       *)
(*     [int |-> n]; an absent address prefix is formatted as NoPrefix.     *)
(*   - A call that raises leaves the exception's name in `raised`.         *)
(*   - The marker strings print_table puts among the 'ip/prefix' strings   *)
(*     are pairs as well, with NoPrefix for the prefix they do not have.   *)
(***************************************************************************)
EXTENDS Integers, Sequences, FiniteSets, TLC

VARIABLES
    system_data,     \* SystemConfigState.get_data(): <<name, config>> pairs
    interface_list,  \* SystemConfigState.interface_list: [name, netdef_id]
    netdefs,         \* NetplanConfigState.netdefs: <<id, config>> pairs
    call,            \* the last call made: "none", "get_diff", "get_full_state"
    report_arg,      \* the `interface` argument of that get_diff call
    report,          \* the report it returned (NoReport for another call)
    full_state,      \* what get_full_state returned (NoFullState likewise)
    raised,          \* the exception that call raised, None when it returned
    earlier,         \* the calls made on the object before the last one
    renders,         \* how many times print_table has rendered the report
    output           \* the rows the last rendering showed

vars == <<system_data, interface_list, netdefs, call, report_arg, report,
          full_state, raised, earlier, renders, output>>

snapshots == <<system_data, interface_list, netdefs>>

(***************************************************************************)
(* Python values                                                           *)
(***************************************************************************)
None == "None"
EmptyDict == [k \in {} |-> TRUE]

Get(d, k, default) == IF k \in DOMAIN d THEN d[k] ELSE default

\* dict.update(e): the keys of e win
Update(d, e) == e @@ d

Range(s) == {s[i] : i \in DOMAIN s}

\* truth value of a str-or-None
TruthyStr(s) == s # None /\ s # ""

RECURSIVE SetToList(_)
SetToList(S) ==
    IF S = {} THEN <<>>
    ELSE LET x == CHOOSE e \in S : TRUE
         IN  <<x>> \o SetToList(S \ {x})

\* keys(pairs)[i] is the key of the i-th item of an ordered dict
Keys(pairs) == [i \in DOMAIN pairs |-> pairs[i][1]]

\* the sub-sequences of pool (order kept) with at most n elements
SubSeqs(pool, n) ==
    LET Pick(I) == LET f[k \in 0..Len(pool)] ==
                           IF k = 0 THEN <<>>
                           ELSE IF k \in I THEN Append(f[k-1], pool[k])
                                ELSE f[k-1]
                   IN  f[Len(pool)]
    IN  {Pick(I) : I \in {J \in SUBSET (1..Len(pool)) : Cardinality(J) <= n}}

\* the sequences without repetition over S with at most n elements
RECURSIVE Arrangements(_, _)
Arrangements(S, n) ==
    IF n = 0 \/ S = {} THEN {<<>>}
    ELSE {<<>>} \cup UNION {{<<x>> \o t : t \in Arrangements(S \ {x}, n - 1)} : x \in S}

(***************************************************************************)
(* Bounds of the model                                                     *)
(***************************************************************************)
MaxLive == 2        \* live interfaces in a snapshot
MaxAddrs == 2       \* addresses of one interface, on either side
MaxDns == 2         \* nameservers / search domains of one interface
MaxRoutes == 2      \* routes of one interface, on either side
MaxRenders == 2     \* renderings of one report

(***************************************************************************)
(* ipaddress (Python standard library), over the addresses of the model    *)
(***************************************************************************)
IPv4Strings == {"192.168.0.1", "192.168.5.1", "1.1.1.1", "8.8.8.8", "169.254.7.7"}
IPv6Strings == {"2001:db8::1", "fe80::1", "fd00::53"}

\* the text 'None' where 'ip/prefix' has its prefix
NoPrefix == 0 - 1

\* whether ipaddress.ip_interface(addr) raises ValueError, for an 'ip/prefix'
\* string: 'ip/None' is no interface address
ip_interface_raises(addr) == addr[2] = NoPrefix

\* whether ipaddress.ip_interface(to) raises ValueError, for the destination
\* of a route other than 'default': None is no interface address
ip_interface_of_destination_raises(to) == to = None

\* ipaddress.ip_address(s).version
ip_version(ip) == IF ip \in IPv4Strings THEN 4 ELSE 6

\* ipaddress.ip_interface(addr).ip, as a string
ip_of(addr) == addr[1]

\* str(ipaddress.ip_interface(addr).network)
network_of(addr) ==
    CASE addr = <<"192.168.0.1", 24>> -> "192.168.0.0/24"
      [] addr = <<"192.168.5.1", 24>> -> "192.168.5.0/24"
      [] addr = <<"169.254.7.7", 16>> -> "169.254.0.0/16"
      [] addr = <<"2001:db8::1", 64>> -> "2001:db8::/64"
      [] addr = <<"fe80::1", 64>>     -> "fe80::/64"
      [] OTHER -> "0.0.0.0/0"

\* ipaddress.ip_interface(to).is_link_local, for a route destination
LinkLocalDestinations == {"fe80::/64", "169.254.0.0/16", "fe80::1", "169.254.7.7"}
is_link_local(to) == to \in LinkLocalDestinations

(***************************************************************************)
(* Routes                                                                  *)
(***************************************************************************)
\* netplan.netdef.NetplanRoute(**route): a value type; a field the caller
\* leaves out takes its default.  Two routes are equal when all fields are.
RouteDefaults ==
    [family |-> 0 - 1, to |-> None, via |-> None, from_addr |-> None,
     metric |-> 0 - 1, scope |-> "global", type |-> "unicast",
     protocol |-> None, table |-> 0]

NetplanRoute(route) ==
    [f \in DOMAIN RouteDefaults |->
        IF f \in DOMAIN route THEN route[f] ELSE RouteDefaults[f]]

\* A table name is a Python value that is a str, [str |-> s], or an int,
\* [int |-> n].  IntLiterals holds the strings of the model int() parses.
IntLiterals ==
    ("1000" :> 1000) @@ ("100" :> 100) @@ ("254" :> 254) @@ ("0" :> 0)
    @@ (" 7 " :> 7) @@ ("-1" :> 0 - 1)

ValueError == [raise |-> "ValueError"]

\* int(x): the int itself, the number a str parses to, or ValueError raised
int(x) ==
    IF "int" \in DOMAIN x THEN x
    ELSE IF x.str \in DOMAIN IntLiterals THEN [int |-> IntLiterals[x.str]]
    ELSE ValueError

\* mutant: the symbolic names are not resolved
Mut_default_tables_name_to_number(name) ==
    IF int(name) = ValueError THEN 0 ELSE int(name).int

_default_tables_name_to_number(name) ==
    CASE name = [str |-> "default"] -> 253
      [] name = [str |-> "main"] -> 254
      [] name = [str |-> "local"] -> 255
      [] OTHER -> LET value == int(name)
                  IN  IF value = ValueError THEN 0 ELSE value.int

\* one `if x := system_route.get(key): route[field] = x` step
CopyStr(system_route, key, field) ==
    IF TruthyStr(Get(system_route, key, None))
    THEN field :> system_route[key] ELSE EmptyDict

\* mutant: an int is copied whenever the record has the key
MutCopyInt(system_route, key, field) ==
    IF key \in DOMAIN system_route
    THEN field :> system_route[key] ELSE EmptyDict

CopyInt(system_route, key, field) ==
    IF Get(system_route, key, 0) # 0
    THEN field :> system_route[key] ELSE EmptyDict

_system_route_to_netplan(system_route) ==
    NetplanRoute(
        CopyInt(system_route, "family", "family")
        @@ CopyStr(system_route, "to", "to")
        @@ CopyStr(system_route, "via", "via")
        @@ CopyStr(system_route, "from", "from_addr")
        @@ CopyInt(system_route, "metric", "metric")
        @@ CopyStr(system_route, "scope", "scope")
        @@ CopyStr(system_route, "type", "type")
        @@ CopyStr(system_route, "protocol", "protocol")
        @@ (IF TruthyStr(Get(system_route, "table", None))
            THEN "table" :> _default_tables_name_to_number([str |-> system_route["table"]])
            ELSE EmptyDict))

(***************************************************************************)
(* get_full_state                                                          *)
(***************************************************************************)
\* netplan_cli.cli.state.DEVICE_TYPES
DEVICE_TYPES == ("ethernets" :> "ethernet") @@ ("wifis" :> "wifi")

\* f'{ip}/{prefix}' of one entry {ip: {'prefix': .., 'flags': ..}}; an absent
\* prefix is formatted as the text 'None', which NoPrefix stands for
full_addr(addr) == <<addr.ip, Get(addr.data, "prefix", NoPrefix)>>

\* mutant: the addresses DHCP or the kernel assigned are left out
MutSystemAddresses(config) ==
    LET list == SelectSeq(Get(config, "addresses", <<>>),
                          LAMBDA addr : Get(addr.data, "flags", {}) = {})
    IN  [k \in {full_addr(list[i]) : i \in DOMAIN list} |-> [flags |-> {}]]

\* the `addresses` dict of a live interface: a later entry of the list
\* replaces an earlier one with the same 'ip/prefix'
SystemAddresses(config) ==
    LET list == Get(config, "addresses", <<>>)
        keys == {full_addr(list[i]) : i \in DOMAIN list}
        last(k) == CHOOSE i \in DOMAIN list :
                       /\ full_addr(list[i]) = k
                       /\ \A j \in DOMAIN list : full_addr(list[j]) = k => j <= i
    IN  [k \in keys |-> [flags |-> Get(list[last(k)].data, "flags", {})]]

\* the container's 'system_state' for one live interface
SystemStateOf(config) ==
    (IF SystemAddresses(config) # EmptyDict
     THEN "addresses" :> SystemAddresses(config) ELSE EmptyDict)
    @@ (IF Get(config, "dns_addresses", <<>>) # <<>>
        THEN "nameservers" :> config["dns_addresses"] ELSE EmptyDict)
    @@ (IF Get(config, "dns_search", <<>>) # <<>>
        THEN "search" :> config["dns_search"] ELSE EmptyDict)
    @@ (IF Get(config, "routes", <<>>) # <<>>
        THEN "routes" :> [i \in DOMAIN config["routes"] |->
                             _system_route_to_netplan(config["routes"][i])]
        ELSE EmptyDict)
    @@ (IF TruthyStr(Get(config, "macaddress", None))
        THEN "macaddress" :> config["macaddress"] ELSE EmptyDict)

\* the container of one live interface after the "System state" loop
SystemContainer(config) ==
    ("type" :> Get(config, "type", None))
    @@ ("system_state" :> SystemStateOf(config))
    @@ (IF TruthyStr(Get(config, "id", None))
        THEN "id" :> config["id"] ELSE EmptyDict)

\* the live interfaces of get_data(), 'netplan-global-state' skipped
LiveItems(data) == SelectSeq(data, LAMBDA item : item[1] # "netplan-global-state")

\* id_to_name after the "System state" loop: the last interface wins
IdToName(data) ==
    LET live == LiveItems(data)
        carriers(id) == {i \in DOMAIN live : Get(live[i][2], "id", None) = id}
        ids == {live[i][2]["id"] : i \in {j \in DOMAIN live :
                                        TruthyStr(Get(live[j][2], "id", None))}}
        Max(I) == CHOOSE i \in I : \A j \in I : j <= i
    IN  [id \in ids |-> live[Max(carriers(id))][1]]

\* data['interfaces'] after the "System state" loop, with its key order
AfterSystemLoop(data) ==
    LET live == LiveItems(data)
        names == {live[i][1] : i \in DOMAIN live}
        item(n) == CHOOSE i \in DOMAIN live : live[i][1] = n
    IN  [order |-> Keys(live),
         interfaces |-> [n \in names |-> SystemContainer(live[item(n)][2])]]

\* the flags of a declared address
NetplanAddressFlags(addr) ==
    (IF TruthyStr(addr.label) THEN {<<"label: ", addr.label>>} ELSE {})
    \cup (IF TruthyStr(addr.lifetime) THEN {<<"lifetime: ", addr.lifetime>>} ELSE {})

\* the 'netplan_state' sub-record filled from one netdef
NetplanStateOf(config) ==
    ("type" :> Get(DEVICE_TYPES, config.type, "unknown"))
    @@ ("dhcp4" :> config.dhcp4)
    @@ ("dhcp6" :> config.dhcp6)
    @@ (IF config.addresses # <<>>
        THEN "addresses" :>
               [k \in {config.addresses[i].addr : i \in DOMAIN config.addresses} |->
                  [flags |-> NetplanAddressFlags(
                      config.addresses[CHOOSE i \in DOMAIN config.addresses :
                                           config.addresses[i].addr = k])]]
        ELSE EmptyDict)
    @@ (IF config.nameserver_addresses # <<>>
        THEN "nameservers" :> config.nameserver_addresses ELSE EmptyDict)
    @@ (IF config.nameserver_search # <<>>
        THEN "search" :> config.nameserver_search ELSE EmptyDict)
    @@ (IF config.routes # <<>>
        THEN "routes" :> config.routes ELSE EmptyDict)
    @@ (IF TruthyStr(config.macaddress)
        THEN "macaddress" :> config.macaddress ELSE EmptyDict)

\* mutant: the new container is created with both sub-records
MutUnmatchedContainer(interface, config) ==
    ("id" :> interface) @@ ("system_state" :> EmptyDict)
    @@ ("netplan_state" :> NetplanStateOf(config))

\* a netdef whose id no live interface carries: a new container stored under
\* the id, replacing whatever was stored under that key
UnmatchedContainer(interface, config) ==
    ("id" :> interface) @@ ("netplan_state" :> NetplanStateOf(config))

\* one iteration of the "Netplan state" loop
NetplanStep(acc, id_to_name, interface, config) ==
    IF interface \in DOMAIN id_to_name
    THEN LET name == id_to_name[interface]
         IN  [acc EXCEPT !.interfaces =
                  Update(@, name :> Update(acc.interfaces[name],
                      ("id" :> interface)
                      @@ ("netplan_state" :> NetplanStateOf(config))))]
    ELSE [order |-> IF interface \in DOMAIN acc.interfaces THEN acc.order
                    ELSE Append(acc.order, interface),
          interfaces |-> Update(acc.interfaces,
              interface :> UnmatchedContainer(interface, config))]

RECURSIVE NetplanLoop(_, _, _, _)
NetplanLoop(acc, id_to_name, defs, i) ==
    IF i > Len(defs) THEN acc
    ELSE NetplanLoop(NetplanStep(acc, id_to_name, defs[i][1], defs[i][2]),
                     id_to_name, defs, i + 1)

\* get_full_state(): data['interfaces'] and the order of its keys
get_full_state_of(data, defs) ==
    NetplanLoop(AfterSystemLoop(data), IdToName(data), defs, 1)

get_full_state == get_full_state_of(system_data, netdefs)

(***************************************************************************)
(* get_diff: the per-category analyses                                     *)
(***************************************************************************)
\* a dict holding key only when the list is not empty (`if present_only_..`)
IfAny(key, set) == IF set # {} THEN key :> SetToList(set) ELSE EmptyDict

SystemState(config) == Get(config, "system_state", EmptyDict)
NetplanState(config) == Get(config, "netplan_state", EmptyDict)

\* iface[netdef_id]['system_state'].update(sys), ['netplan_state'].update(np)
Record(iface, sys, np) ==
    [iface EXCEPT !.system_state = Update(@, sys),
                  !.netplan_state = Update(@, np)]

\* the live addresses kept for the comparison ("Select only static IPs")
StaticSystemIps(config) ==
    LET addresses == Get(SystemState(config), "addresses", EmptyDict)
    IN  {addr \in DOMAIN addresses :
            /\ "dhcp" \notin Get(addresses[addr], "flags", {})
            /\ "link" \notin Get(addresses[addr], "flags", {})}

\* missing_dhcp4_address / missing_dhcp6_address after the loop (version 4, 6)
MissingDhcpAddress(config, key, version) ==
    LET addresses == Get(SystemState(config), "addresses", EmptyDict)
    IN  /\ Get(NetplanState(config), key, FALSE)
        /\ ~ \E addr \in DOMAIN addresses :
                /\ "dhcp" \in Get(addresses[addr], "flags", {})
                /\ ip_version(ip_of(addr)) = version

_analyze_ip_addresses(config, iface) ==
    LET netplan_ips == DOMAIN Get(NetplanState(config), "addresses", EmptyDict)
        system_ips == StaticSystemIps(config)
        present_only_in_netplan == netplan_ips \ system_ips
        present_only_in_system == system_ips \ netplan_ips
    IN  Record(iface,
            IfAny("missing_addresses", present_only_in_netplan)
            @@ (IF MissingDhcpAddress(config, "dhcp4", 4)
                THEN "missing_dhcp4_address" :> TRUE ELSE EmptyDict)
            @@ (IF MissingDhcpAddress(config, "dhcp6", 6)
                THEN "missing_dhcp6_address" :> TRUE ELSE EmptyDict),
            IfAny("missing_addresses", present_only_in_system))

\* mutant: DHCP of either family hides the live nameservers of both
MutAnyDhcpFilteredSystemNameservers(config) ==
    LET netplan_nameservers == Range(Get(NetplanState(config), "nameservers", <<>>))
        system_routes == Get(SystemState(config), "routes", <<>>)
        ra_routes == {system_routes[i].via : i \in {j \in DOMAIN system_routes :
                          /\ system_routes[j].protocol = "ra"
                          /\ TruthyStr(system_routes[j].via)}}
    IN  IF /\ netplan_nameservers = {}
           /\ \/ Get(NetplanState(config), "dhcp4", FALSE)
              \/ Get(NetplanState(config), "dhcp6", FALSE)
        THEN {}
        ELSE Range(Get(SystemState(config), "nameservers", <<>>)) \ ra_routes

\* mutant: the gateway of any live route counts, whatever its protocol
MutAnyGatewayFilteredSystemNameservers(config) ==
    LET netplan_nameservers == Range(Get(NetplanState(config), "nameservers", <<>>))
        system_routes == Get(SystemState(config), "routes", <<>>)
        gateways == {system_routes[i].via : i \in DOMAIN system_routes}
        not_gw == Range(Get(SystemState(config), "nameservers", <<>>)) \ gateways
        not_dhcp4 == IF netplan_nameservers = {} /\ Get(NetplanState(config), "dhcp4", FALSE)
                     THEN {ns \in not_gw : ip_version(ns) # 4} ELSE not_gw
    IN  IF netplan_nameservers = {} /\ Get(NetplanState(config), "dhcp6", FALSE)
        THEN {ns \in not_dhcp4 : ip_version(ns) # 6} ELSE not_dhcp4

\* mutant: the gateways of RA routes are not taken out
MutNoRaFilteredSystemNameservers(config) ==
    LET netplan_nameservers == Range(Get(NetplanState(config), "nameservers", <<>>))
        all == Range(Get(SystemState(config), "nameservers", <<>>))
        not_dhcp4 == IF netplan_nameservers = {} /\ Get(NetplanState(config), "dhcp4", FALSE)
                     THEN {ns \in all : ip_version(ns) # 4} ELSE all
    IN  IF netplan_nameservers = {} /\ Get(NetplanState(config), "dhcp6", FALSE)
        THEN {ns \in not_dhcp4 : ip_version(ns) # 6} ELSE not_dhcp4

\* the live nameservers left after the heuristics
FilteredSystemNameservers(config) ==
    LET netplan_nameservers == Range(Get(NetplanState(config), "nameservers", <<>>))
        system_routes == Get(SystemState(config), "routes", <<>>)
        ra_routes == {system_routes[i].via : i \in {j \in DOMAIN system_routes :
                          /\ system_routes[j].protocol = "ra"
                          /\ TruthyStr(system_routes[j].via)}}
        not_ra == Range(Get(SystemState(config), "nameservers", <<>>)) \ ra_routes
        not_dhcp4 == IF netplan_nameservers = {} /\ Get(NetplanState(config), "dhcp4", FALSE)
                     THEN {ns \in not_ra : ip_version(ns) # 4} ELSE not_ra
    IN  IF netplan_nameservers = {} /\ Get(NetplanState(config), "dhcp6", FALSE)
        THEN {ns \in not_dhcp4 : ip_version(ns) # 6} ELSE not_dhcp4

_analyze_nameservers(config, iface) ==
    LET netplan_nameservers == Range(Get(NetplanState(config), "nameservers", <<>>))
        system_nameservers == FilteredSystemNameservers(config)
    IN  Record(iface,
            IfAny("missing_nameservers", netplan_nameservers \ system_nameservers),
            IfAny("missing_nameservers", system_nameservers \ netplan_nameservers))

\* mutant: DHCP clears the live search domains whatever is declared
MutFilteredSystemSearch(config) ==
    IF \/ Get(NetplanState(config), "dhcp4", FALSE)
       \/ Get(NetplanState(config), "dhcp6", FALSE)
    THEN {}
    ELSE Range(Get(SystemState(config), "search", <<>>))

\* the live search domains left after the heuristic
FilteredSystemSearch(config) ==
    LET netplan_search_domains == Range(Get(NetplanState(config), "search", <<>>))
    IN  IF /\ netplan_search_domains = {}
           /\ \/ Get(NetplanState(config), "dhcp4", FALSE)
              \/ Get(NetplanState(config), "dhcp6", FALSE)
        THEN {}
        ELSE Range(Get(SystemState(config), "search", <<>>))

_analyze_search_domains(config, iface) ==
    LET netplan_search_domains == Range(Get(NetplanState(config), "search", <<>>))
        system_search_domains == FilteredSystemSearch(config)
    IN  Record(iface,
            IfAny("missing_search_domains", netplan_search_domains \ system_search_domains),
            IfAny("missing_search_domains", system_search_domains \ netplan_search_domains))

\* mutant: the routes to the interface's own networks and addresses are kept
MutFilteredOut(route, local_networks, addresses) ==
    \/ route.scope = "link"
    \/ route.protocol = "dhcp" \/ route.protocol = "ra"
    \/ route.to # "default" /\ is_link_local(route.to)
    \/ route.scope = "host" /\ route.type = "local" /\ route.to = route.from_addr
    \/ route.family = 10 /\ route.type = "multicast" /\ route.to = "ff00::/8"

\* whether _filter_system_routes drops the route
FilteredOut(route, local_networks, addresses) ==
    \/ route.scope = "link"
    \/ route.protocol = "dhcp" \/ route.protocol = "ra"
    \/ route.to # "default" /\ is_link_local(route.to)
    \/ route.scope = "host" /\ route.type = "local" /\ route.to = route.from_addr
    \/ route.family = 10 /\ route.type = "multicast" /\ route.to = "ff00::/8"
    \/ route.to \in local_networks \/ route.to \in addresses

_filter_system_routes(system_routes, system_addresses) ==
    LET local_networks == {network_of(ip) : ip \in system_addresses}
        addresses == {ip_of(ip) : ip \in system_addresses}
    IN  {route \in system_routes : ~ FilteredOut(route, local_networks, addresses)}

\* mutant: every live route left by the filter is reported, declared or not
Mut_analyze_routes(config, iface) ==
    LET netplan_routes == Range(Get(NetplanState(config), "routes", <<>>))
        system_addresses == DOMAIN Get(SystemState(config), "addresses", EmptyDict)
        system_routes == _filter_system_routes(
            Range(Get(SystemState(config), "routes", <<>>)), system_addresses)
    IN  Record(iface,
            IfAny("missing_routes", netplan_routes),
            IfAny("missing_routes", system_routes))

_analyze_routes(config, iface) ==
    LET netplan_routes == Range(Get(NetplanState(config), "routes", <<>>))
        system_addresses == DOMAIN Get(SystemState(config), "addresses", EmptyDict)
        system_routes == _filter_system_routes(
            Range(Get(SystemState(config), "routes", <<>>)), system_addresses)
    IN  Record(iface,
            IfAny("missing_routes", netplan_routes \ system_routes),
            IfAny("missing_routes", system_routes \ netplan_routes))

_analyze_mac_addresses(config, iface) ==
    LET system_macaddress == Get(SystemState(config), "macaddress", None)
        netplan_macaddress == Get(NetplanState(config), "macaddress", None)
    IN  IF /\ TruthyStr(system_macaddress) /\ TruthyStr(netplan_macaddress)
           /\ system_macaddress # netplan_macaddress
        THEN Record(iface, "missing_macaddress" :> netplan_macaddress,
                           "missing_macaddress" :> system_macaddress)
        ELSE iface

\* whether _analyze_ip_addresses raises: ip_interface(addr) of each live address
_analyze_ip_addresses_raises(config) ==
    \E addr \in DOMAIN Get(SystemState(config), "addresses", EmptyDict) :
        ip_interface_raises(addr)

\* whether _filter_system_routes raises: ip_interface(ip) of each live address,
\* and ip_interface(route.to) of each route the first two tests let through
_filter_system_routes_raises(system_routes, system_addresses) ==
    \/ \E ip \in system_addresses : ip_interface_raises(ip)
    \/ \E route \in system_routes :
          /\ route.scope # "link"
          /\ route.protocol # "dhcp" /\ route.protocol # "ra"
          /\ route.to # "default"
          /\ ip_interface_of_destination_raises(route.to)

\* the exception the analyses of one container raise, None when they return
InterfaceDiffRaises(config) ==
    IF \/ _analyze_ip_addresses_raises(config)
       \/ _filter_system_routes_raises(
              Range(Get(SystemState(config), "routes", <<>>)),
              DOMAIN Get(SystemState(config), "addresses", EmptyDict))
    THEN "ValueError" ELSE None

_create_new_iface(interface) ==
    [name |-> interface, system_state |-> EmptyDict, netplan_state |-> EmptyDict]

\* the report entry of one container (the body of the loop of get_diff)
InterfaceDiff(interface, config) ==
    _analyze_mac_addresses(config,
      _analyze_routes(config,
        _analyze_search_domains(config,
          _analyze_nameservers(config,
            _analyze_ip_addresses(config, _create_new_iface(interface))))))

(***************************************************************************)
(* get_diff                                                                *)
(***************************************************************************)
\* Python's order of the interface names and netdef ids of the model
StrOrder == <<"eth0", "eth1", "lan", "lo">>
StrRank(x) == CHOOSE i \in DOMAIN StrOrder : StrOrder[i] = x
StrLess(x, y) == StrRank(x) < StrRank(y)

\* mutant: the list is left in the order it was built
Mutsorted(list) == list

\* sorted(list)
RECURSIVE sorted(_)
sorted(list) ==
    IF list = <<>> THEN <<>>
    ELSE LET i == CHOOSE k \in DOMAIN list :
                      \A j \in DOMAIN list : ~ StrLess(list[j], list[k])
             rest == [k \in 1..(Len(list) - 1) |-> IF k < i THEN list[k] ELSE list[k + 1]]
         IN  <<list[i]>> \o sorted(rest)

NetdefOf(defs, id) == defs[CHOOSE i \in DOMAIN defs : defs[i][1] = id][2]

\* mutant: disconnected wifi netdefs are not filtered out
MutNetplanOnly(defs, ifaces) ==
    Range(Keys(defs))
    \ {ifaces[i].netdef_id : i \in {j \in DOMAIN ifaces : TruthyStr(ifaces[j].netdef_id)}}

\* netplan_only, before it is sorted
NetplanOnly(defs, ifaces) ==
    LET netplan_interfaces == Range(Keys(defs))
        system_interfaces_netdef_ids ==
            {ifaces[i].netdef_id : i \in {j \in DOMAIN ifaces : TruthyStr(ifaces[j].netdef_id)}}
    IN  {i \in netplan_interfaces \ system_interfaces_netdef_ids :
            NetdefOf(defs, i).type # "wifis"}

\* mutant: the loopback interface is not skipped
MutSystemOnly(defs, ifaces) ==
    LET listed == SelectSeq(ifaces, LAMBDA iface :
                      iface.netdef_id \notin Range(Keys(defs)))
    IN  [i \in DOMAIN listed |-> listed[i].name]

\* system_only, before it is sorted
SystemOnly(defs, ifaces) ==
    LET netplan_interfaces == Range(Keys(defs))
        listed == SelectSeq(ifaces, LAMBDA iface :
                      /\ iface.name # "lo"
                      /\ iface.netdef_id \notin netplan_interfaces)
    IN  [i \in DOMAIN listed |-> listed[i].name]

\* the report after _create_new_report and _analyze_missing_interfaces
_analyze_missing_interfaces(defs, ifaces) ==
    [interfaces |-> EmptyDict,
     missing_interfaces_system |-> sorted(SetToList(NetplanOnly(defs, ifaces))),
     missing_interfaces_netplan |-> sorted(SystemOnly(defs, ifaces))]

\* mutant: the `interface` argument is ignored
MutSelectedInterfaces(full, interface) == full.order

\* the keys of the containers get_diff iterates, in order
SelectedInterfaces(full, interface) ==
    IF TruthyStr(interface)
    THEN IF interface \in DOMAIN full.interfaces THEN <<interface>> ELSE <<>>
    ELSE full.order

\* one iteration of the loop of get_diff
DiffStep(interfaces, interface, config) ==
    IF "system_state" \notin DOMAIN config THEN interfaces
    ELSE IF ~ TruthyStr(Get(config, "id", None)) THEN interfaces
    ELSE Update(interfaces, config["id"] :> InterfaceDiff(interface, config))

RECURSIVE DiffLoop(_, _, _, _)
DiffLoop(interfaces, full, keys, i) ==
    IF i > Len(keys) THEN interfaces
    ELSE DiffLoop(DiffStep(interfaces, keys[i], full.interfaces[keys[i]]),
                  full, keys, i + 1)

get_diff_of(data, ifaces, defs, interface) ==
    LET full == get_full_state_of(data, defs)
    IN  [_analyze_missing_interfaces(defs, ifaces) EXCEPT
            !.interfaces = DiffLoop(EmptyDict, full,
                                    SelectedInterfaces(full, interface), 1)]

\* mutant: the object keeps the report it made and returns it again
Mutget_diff(interface) ==
    IF call = "get_diff" /\ raised = None THEN report
    ELSE get_diff_of(system_data, interface_list, netdefs, interface)

get_diff(interface) == get_diff_of(system_data, interface_list, netdefs, interface)

\* the exception get_diff raises, None when it returns: the first analysed
\* container that raises ends the call
get_diff_raises(interface) ==
    LET full == get_full_state
        keys == SelectedInterfaces(full, interface)
        analysed == {i \in DOMAIN keys :
                        /\ "system_state" \in DOMAIN full.interfaces[keys[i]]
                        /\ TruthyStr(Get(full.interfaces[keys[i]], "id", None))}
    IN  IF \E i \in analysed : InterfaceDiffRaises(full.interfaces[keys[i]]) # None
        THEN "ValueError" ELSE None

(***************************************************************************)
(* The snapshots of the model                                              *)
(***************************************************************************)
LiveNames == {"eth0", "eth1", "lo"}
LiveIds == {"eth0", "lan"}
NetdefIds == {"eth0", "lan"}
NetdefTypes == {"ethernets", "wifis"}

\* a declared address object: str(addr), addr.label, addr.lifetime
DeclaredAddress(addr) == [addr |-> addr, label |-> None, lifetime |-> None]

\* a netdef with nothing configured, and its fields
PlainNetdef ==
    [type |-> "ethernets", dhcp4 |-> FALSE, dhcp6 |-> FALSE, addresses |-> <<>>,
     nameserver_addresses |-> <<>>, nameserver_search |-> <<>>, routes |-> <<>>,
     macaddress |-> None]

\* one entry {ip: {'prefix': prefix, 'flags': flags}} of a live address list
LiveAddress(ip, prefix, flags) ==
    [ip |-> ip, data |-> ("prefix" :> prefix) @@ ("flags" :> flags)]

\* get_data() always carries the global entry
GlobalState == <<"netplan-global-state", EmptyDict>>

\* interface_list as SystemConfigState builds it: one Interface per entry
InterfacesOf(data) ==
    LET live == LiveItems(data)
    IN  [i \in DOMAIN live |->
            [name |-> live[i][1], netdef_id |-> Get(live[i][2], "id", None)]]

\* --- identity: names and ids vary, every interface has the same attributes
IdentityLive(name, id) ==
    <<name, ("name" :> name) @@ ("type" :> "ethernet")
            @@ ("macaddress" :> "11:22:33:44:55:66")
            @@ (IF id # None THEN "id" :> id ELSE EmptyDict)>>

IdentityNetdef(id, type) ==
    <<id, [PlainNetdef EXCEPT
              !.type = type,
              !.dhcp4 = TRUE,
              !.addresses = <<DeclaredAddress(<<"192.168.0.1", 24>>)>>,
              !.macaddress = "aa:bb:cc:dd:ee:ff"]>>

IdentityData ==
    {<<GlobalState>> \o [i \in DOMAIN names |-> IdentityLive(names[i], ids[i])] :
        <<names, ids>> \in UNION {{names} \X [DOMAIN names -> LiveIds \cup {None}] :
                                      names \in Arrangements(LiveNames, MaxLive)}}

IdentityNetdefs ==
    {[i \in DOMAIN ids |-> IdentityNetdef(ids[i], types[i])] :
        <<ids, types>> \in UNION {{ids} \X [DOMAIN ids -> NetdefTypes] :
                                      ids \in Arrangements(NetdefIds, Cardinality(NetdefIds))}}

IdentitySnapshots ==
    /\ system_data \in IdentityData
    /\ netdefs \in IdentityNetdefs
    \* the list the state object builds, or the empty list of the tests' mock
    /\ interface_list \in {InterfacesOf(system_data), <<>>}

\* --- one matched interface: live "eth1" carries the declared id "lan"
MatchedData(attributes) ==
    <<GlobalState,
      <<"eth1", ("name" :> "eth1") @@ ("type" :> "ethernet") @@ ("id" :> "lan")
                @@ attributes>>>>

MatchedNetdefs(config) == <<<<"lan", config>>>>

DhcpSettings == {[PlainNetdef EXCEPT !.dhcp4 = d4, !.dhcp6 = d6] : d4, d6 \in BOOLEAN}

\* --- addresses
AddressPool == <<<<"192.168.0.1", 24>>, <<"2001:db8::1", 64>>, <<"fe80::1", 64>>>>
FlagSets == {{}, {"dhcp"}, {"link"}}

LiveAddressLists ==
    {[i \in DOMAIN addrs |-> LiveAddress(addrs[i][1], addrs[i][2], flags[i])] :
        <<addrs, flags>> \in UNION {{addrs} \X [DOMAIN addrs -> FlagSets] :
                                       addrs \in SubSeqs(AddressPool, MaxAddrs)}}

DeclaredAddressLists ==
    {[i \in DOMAIN addrs |-> DeclaredAddress(addrs[i])] :
        addrs \in SubSeqs(AddressPool, MaxAddrs)}

InitAddresses ==
    /\ \E live \in LiveAddressLists :
           system_data = MatchedData(IF live = <<>> THEN EmptyDict
                                      ELSE "addresses" :> live)
    /\ \E dhcp \in DhcpSettings, addrs \in DeclaredAddressLists :
           netdefs = MatchedNetdefs([dhcp EXCEPT !.addresses = addrs])
    /\ interface_list = InterfacesOf(system_data)

\* --- nameservers
NameserverPool == <<"1.1.1.1", "8.8.8.8", "fd00::53">>

DnsRoutePool ==
    <<[to |-> "default", via |-> "fd00::53", protocol |-> "ra", family |-> 10,
       table |-> "main"],
      [to |-> "default", via |-> "1.1.1.1", protocol |-> "static", family |-> 2,
       table |-> "main"]>>

InitNameservers ==
    /\ \E ns \in SubSeqs(NameserverPool, MaxDns), routes \in SubSeqs(DnsRoutePool, MaxRoutes) :
           system_data = MatchedData(
               (IF ns = <<>> THEN EmptyDict ELSE "dns_addresses" :> ns)
               @@ (IF routes = <<>> THEN EmptyDict ELSE "routes" :> routes))
    /\ \E dhcp \in DhcpSettings, ns \in SubSeqs(NameserverPool, MaxDns) :
           netdefs = MatchedNetdefs([dhcp EXCEPT !.nameserver_addresses = ns])
    /\ interface_list = InterfacesOf(system_data)

\* --- search domains
SearchPool == <<"lan.example", "corp.example">>

InitSearch ==
    /\ \E search \in SubSeqs(SearchPool, MaxDns) :
           system_data = MatchedData(IF search = <<>> THEN EmptyDict
                                      ELSE "dns_search" :> search)
    /\ \E dhcp \in DhcpSettings, search \in SubSeqs(SearchPool, MaxDns) :
           netdefs = MatchedNetdefs([dhcp EXCEPT !.nameserver_search = search])
    /\ interface_list = InterfacesOf(system_data)

\* --- routes
LiveRoutePool ==
    <<[to |-> "default", via |-> "192.168.5.1", from |-> "192.168.5.122",
       metric |-> 100, type |-> "unicast", scope |-> "global",
       protocol |-> "kernel", family |-> 2, table |-> "main"],
      [to |-> "10.20.0.0/16", via |-> "192.168.5.1", type |-> "unicast",
       scope |-> "global", protocol |-> "static", family |-> 2, table |-> "main"],
      [to |-> "192.168.5.0/24", type |-> "unicast", scope |-> "link",
       protocol |-> "kernel", family |-> 2, table |-> "main"],
      [to |-> "1.2.3.0/24", via |-> "192.168.5.1", type |-> "unicast",
       scope |-> "global", protocol |-> "dhcp", family |-> 2, table |-> "main"],
      [to |-> "abcd::/64", via |-> "abcd::1", type |-> "unicast",
       scope |-> "global", protocol |-> "ra", family |-> 10, table |-> "main"],
      [to |-> "fe80::/64", protocol |-> "kernel", family |-> 10, table |-> "main"],
      [type |-> "multicast", to |-> "ff00::/8", table |-> "local",
       protocol |-> "kernel", family |-> 10],
      [type |-> "local", to |-> "10.86.126.148", table |-> "local",
       protocol |-> "kernel", scope |-> "host", from |-> "10.86.126.148",
       family |-> 2],
      [to |-> "192.168.0.0/24", protocol |-> "kernel", family |-> 2,
       table |-> "main"],
      [type |-> "local", to |-> "192.168.0.1", table |-> "local",
       protocol |-> "kernel", scope |-> "global", family |-> 2]>>

\* what a netdef may declare: a route the system has as well, one it has not,
\* a link-scoped one, a link-local one and one installed by DHCP elsewhere
DeclaredRoutePool ==
    <<_system_route_to_netplan(LiveRoutePool[2]),
      NetplanRoute([to |-> "172.16.0.0/12", via |-> "192.168.0.254", family |-> 2]),
      _system_route_to_netplan(LiveRoutePool[3]),
      _system_route_to_netplan(LiveRoutePool[6]),
      _system_route_to_netplan(LiveRoutePool[4])>>

InitRoutes ==
    /\ \E routes \in SubSeqs(LiveRoutePool, MaxRoutes),
          addrs \in {<<>>, <<LiveAddress("192.168.0.1", 24, {})>>} :
           system_data = MatchedData(
               (IF routes = <<>> THEN EmptyDict ELSE "routes" :> routes)
               @@ (IF addrs = <<>> THEN EmptyDict ELSE "addresses" :> addrs))
    /\ \E routes \in SubSeqs(DeclaredRoutePool, MaxRoutes) :
           netdefs = MatchedNetdefs([PlainNetdef EXCEPT !.routes = routes])
    /\ interface_list = InterfacesOf(system_data)

\* --- routing tables: the live routes name their table in every way
TableNamePool ==
    <<"default", "main", "local", "1000", "100", "254", "0", " 7 ", "-1",
      "blah", "main2", "">>

TableRoutePool ==
    [i \in 1..(2 * Len(TableNamePool)) |->
        [to |-> IF i % 2 = 1 THEN "10.20.0.0/16" ELSE "default",
         via |-> "192.168.5.1", protocol |-> "static", family |-> 2,
         table |-> TableNamePool[(i + 1) \div 2]]]

TableDeclaredPool ==
    <<NetplanRoute([to |-> "10.20.0.0/16", via |-> "192.168.5.1",
                    protocol |-> "static", family |-> 2, table |-> 254]),
      NetplanRoute([to |-> "default", via |-> "192.168.5.1",
                    protocol |-> "static", family |-> 2, table |-> 1000])>>

InitTableNames ==
    /\ \E routes \in SubSeqs(TableRoutePool, MaxRoutes) :
           system_data = MatchedData(IF routes = <<>> THEN EmptyDict
                                      ELSE "routes" :> routes)
    /\ \E routes \in SubSeqs(TableDeclaredPool, 1) :
           netdefs = MatchedNetdefs([PlainNetdef EXCEPT !.routes = routes])
    /\ interface_list = InterfacesOf(system_data)

\* --- a partially populated live interface: optional attributes are absent
PartialAddressPool ==
    <<LiveAddress("192.168.0.1", 24, {}),
      [ip |-> "192.168.0.1", data |-> "prefix" :> 24],
      [ip |-> "192.168.5.1", data |-> "flags" :> {"dhcp"}],
      [ip |-> "2001:db8::1", data |-> EmptyDict]>>

PartialRoutePool ==
    <<LiveRoutePool[2],
      [to |-> "10.20.0.0/16"],
      [via |-> "192.168.5.1", protocol |-> "static", family |-> 2, table |-> "main"],
      [scope |-> "link", protocol |-> "kernel", family |-> 2],
      [via |-> "192.168.5.1", protocol |-> "dhcp"],
      EmptyDict>>

InitPartialLive ==
    /\ \E addrs \in SubSeqs(PartialAddressPool, MaxAddrs),
          routes \in SubSeqs(PartialRoutePool, MaxRoutes),
          id \in {"lan", None}, dns \in BOOLEAN, mac \in BOOLEAN :
           system_data =
               <<GlobalState,
                 <<"eth1", ("name" :> "eth1")
                     @@ (IF id = None THEN EmptyDict ELSE "id" :> id)
                     @@ (IF addrs = <<>> THEN EmptyDict ELSE "addresses" :> addrs)
                     @@ (IF routes = <<>> THEN EmptyDict ELSE "routes" :> routes)
                     @@ (IF dns THEN ("dns_addresses" :> <<"1.1.1.1">>)
                                     @@ ("dns_search" :> <<"lan.example">>)
                         ELSE EmptyDict)
                     @@ (IF mac THEN "macaddress" :> "11:22:33:44:55:66"
                         ELSE EmptyDict)>>>>
    /\ netdefs = <<IdentityNetdef("lan", "ethernets")>>
    /\ interface_list = InterfacesOf(system_data)

\* --- the live interface "eth0" carries the declared id "lan"; a second
\* netdef, when there is one, has the id "eth0" and no live counterpart
InitShadowedName ==
    /\ \E search \in SubSeqs(SearchPool, MaxDns) :
           system_data =
               <<GlobalState,
                 <<"eth0", ("name" :> "eth0") @@ ("id" :> "lan")
                     @@ (IF search = <<>> THEN EmptyDict
                         ELSE "dns_search" :> search)>>>>
    /\ \E dhcp \in DhcpSettings, search \in SubSeqs(SearchPool, MaxDns) :
           LET lan == <<"lan", [dhcp EXCEPT !.nameserver_search = search]>>
               eth0 == <<"eth0", PlainNetdef>>
           IN  netdefs \in {<<lan>>, <<eth0, lan>>, <<lan, eth0>>}
    /\ interface_list = InterfacesOf(system_data)

\* --- MAC addresses
MacPool == {"11:22:33:44:55:66", "aa:bb:cc:dd:ee:ff"}

InitMac ==
    /\ \E mac \in MacPool \cup {"", None} :
           system_data = MatchedData(IF mac = None THEN EmptyDict
                                      ELSE "macaddress" :> mac)
    /\ \E mac \in MacPool \cup {"", None} :
           netdefs = MatchedNetdefs([PlainNetdef EXCEPT !.macaddress = mac])
    /\ interface_list = InterfacesOf(system_data)

\* --- live routes with a field absent or falsy: a fully populated record,
\* and for every field the record without it, with 0 or '' for it and, for a
\* string field, with None for it
PopulatedRoute ==
    [to |-> "10.20.0.0/16", via |-> "192.168.5.1", from |-> "192.168.5.122",
     metric |-> 100, type |-> "local", scope |-> "link", protocol |-> "static",
     family |-> 2, table |-> "1000"]

RouteKeys == <<"family", "metric", "to", "via", "from", "scope", "type",
               "protocol", "table">>
IntKeys == {"family", "metric"}

FalsyRoutePool ==
    <<PopulatedRoute>>
    \o [i \in DOMAIN RouteKeys |->
           [key \in DOMAIN PopulatedRoute \ {RouteKeys[i]} |-> PopulatedRoute[key]]]
    \o [i \in DOMAIN RouteKeys |->
           [PopulatedRoute EXCEPT ![RouteKeys[i]] =
               IF RouteKeys[i] \in IntKeys THEN 0 ELSE ""]]
    \o [i \in 1..(Len(RouteKeys) - Cardinality(IntKeys)) |->
           [PopulatedRoute EXCEPT ![RouteKeys[i + Cardinality(IntKeys)]] = None]]

InitFalsyFields ==
    /\ \E routes \in SubSeqs(FalsyRoutePool, MaxRoutes) :
           system_data = MatchedData(IF routes = <<>> THEN EmptyDict
                                      ELSE "routes" :> routes)
    /\ netdefs = MatchedNetdefs(PlainNetdef)
    /\ interface_list = InterfacesOf(system_data)

(***************************************************************************)
(* What a call leaves of the live snapshot                                 *)
(***************************************************************************)
\* mutant: the 'netplan-global-state' entry is deleted rather than skipped
MutSystemDataAfterCall(data) ==
    SelectSeq(data, LAMBDA item : item[1] # "netplan-global-state")

\* get_full_state iterates get_data().items() and only reads: the
\* 'netplan-global-state' entry is skipped with `continue`, and every
\* assignment goes into the dict the call builds
SystemDataAfterCall(data) == data

(***************************************************************************)
(* NetplanDiff.print_table (commands/diff.py)                              *)
(***************************************************************************)
DHCPv4MissingIP == <<"DHCPv4: missing IP", NoPrefix>>
DHCPv6MissingIP == <<"DHCPv6: missing IP", NoPrefix>>

\* the interfaces print_table skips ("Skip interfaces without diff"); the
\* missing_dhcp flags it reads there are no keys of an entry
Skipped(data) == data.system_state = EmptyDict /\ data.netplan_state = EmptyDict

\* the markers appended to system_addresses
DhcpMarkers(data) ==
    (IF Get(data.system_state, "missing_dhcp4_address", FALSE)
     THEN <<DHCPv4MissingIP>> ELSE <<>>)
    \o (IF Get(data.system_state, "missing_dhcp6_address", FALSE)
        THEN <<DHCPv6MissingIP>> ELSE <<>>)

\* the system column of the 'Addresses' section of one interface:
\* system_addresses after the appends
SystemAddressColumn(data) ==
    IF Skipped(data) THEN <<>>
    ELSE Get(data.system_state, "missing_addresses", <<>>) \o DhcpMarkers(data)

\* the entry after print_table: system_addresses is the list of the entry when
\* the entry has one (and a new list, the default of get, when it has none),
\* and append writes into it
RenderedEntry(data) ==
    IF ~ Skipped(data) /\ "missing_addresses" \in DOMAIN data.system_state
    THEN [data EXCEPT !.system_state =
             Update(@, "missing_addresses" :> SystemAddressColumn(data))]
    ELSE data

\* the report after print_table(diff)
RenderedReport(diff) ==
    [diff EXCEPT !.interfaces =
        [iface \in DOMAIN diff.interfaces |-> RenderedEntry(diff.interfaces[iface])]]

\* the rows of the 'Addresses' sections print_table(diff) shows
print_table(diff) ==
    [iface \in DOMAIN diff.interfaces |-> SystemAddressColumn(diff.interfaces[iface])]

(***************************************************************************)
(* NetplanStatus in diff mode (commands/status.py)                         *)
(***************************************************************************)
\* self.state_diff['interfaces'].get(ifname), {} when there is none
InterfaceDiffOf(state_diff, ifname, side) ==
    IF ifname \in DOMAIN state_diff.interfaces
    THEN state_diff.interfaces[ifname][side] ELSE EmptyDict

\* whether _get_interface_diff returns an entry rather than {}
HasInterfaceDiff(state_diff, ifname) ==
    /\ ifname \in DOMAIN state_diff.interfaces
    /\ \/ state_diff.interfaces[ifname].system_state # EmptyDict
       \/ state_diff.interfaces[ifname].netplan_state # EmptyDict

\* _get_interface_diff(ifname), its 'name' and its two states; None and empty
\* states for the {} it returns otherwise
_get_interface_diff(state_diff, ifname) ==
    IF HasInterfaceDiff(state_diff, ifname)
    THEN state_diff.interfaces[ifname]
    ELSE [name |-> None, system_state |-> EmptyDict, netplan_state |-> EmptyDict]

_is_interface_missing_in_netplan(state_diff, ifname) ==
    ifname \in Range(state_diff.missing_interfaces_netplan)

_get_missing_system_addresses(state_diff, ifname) ==
    Get(InterfaceDiffOf(state_diff, ifname, "system_state"), "missing_addresses", <<>>)

_get_missing_netplan_addresses(state_diff, ifname) ==
    Get(InterfaceDiffOf(state_diff, ifname, "netplan_state"), "missing_addresses", <<>>)

_get_missing_system_nameservers(state_diff, ifname) ==
    Get(InterfaceDiffOf(state_diff, ifname, "system_state"),
        "missing_nameservers_addresses", <<>>)

_get_missing_netplan_nameservers(state_diff, ifname) ==
    Get(InterfaceDiffOf(state_diff, ifname, "netplan_state"),
        "missing_nameservers_addresses", <<>>)

_get_missing_netplan_search(state_diff, ifname) ==
    Get(InterfaceDiffOf(state_diff, ifname, "netplan_state"),
        "missing_nameservers_search", <<>>)

_get_missing_system_search(state_diff, ifname) ==
    Get(InterfaceDiffOf(state_diff, ifname, "system_state"),
        "missing_nameservers_search", <<>>)

_get_missing_netplan_macaddress(state_diff, ifname) ==
    Get(InterfaceDiffOf(state_diff, ifname, "netplan_state"), "missing_macaddress", None)

_get_missing_system_macaddress(state_diff, ifname) ==
    Get(InterfaceDiffOf(state_diff, ifname, "system_state"), "missing_macaddress", None)

_get_missing_netplan_routes(state_diff, ifname) ==
    Get(InterfaceDiffOf(state_diff, ifname, "netplan_state"), "missing_routes", <<>>)

_get_missing_system_routes(state_diff, ifname) ==
    Get(InterfaceDiffOf(state_diff, ifname, "system_state"), "missing_routes", <<>>)

_is_missing_dhcp4_address(state_diff, ifname) ==
    Get(InterfaceDiffOf(state_diff, ifname, "system_state"), "missing_dhcp4_address", FALSE)

_is_missing_dhcp6_address(state_diff, ifname) ==
    Get(InterfaceDiffOf(state_diff, ifname, "system_state"), "missing_dhcp6_address", FALSE)

\* _get_missing_system_interfaces(): the value of the report, which is the
\* list get_diff stored; [list |-> l] is a Python list, [dict |-> d] a dict
_get_missing_system_interfaces(state_diff) ==
    [list |-> state_diff.missing_interfaces_system]

\* the end of pretty_print in diff mode: missing_interfaces.items() is an
\* AttributeError when missing_interfaces is a list, whatever its length
pretty_print_raises(state_diff) ==
    IF "dict" \in DOMAIN _get_missing_system_interfaces(state_diff)
    THEN None ELSE "AttributeError"

\* the MISSING lines pretty_print shows: one per item of the dict, none when
\* the call raised
MissingLines(state_diff) ==
    LET missing_interfaces == _get_missing_system_interfaces(state_diff)
    IN  IF "dict" \in DOMAIN missing_interfaces
        THEN Keys(missing_interfaces.dict) ELSE <<>>

(***************************************************************************)
(* The state machine                                                       *)
(***************************************************************************)
NoReport ==
    [interfaces |-> EmptyDict, missing_interfaces_system |-> <<>>,
     missing_interfaces_netplan |-> <<>>]

NoFullState == [order |-> <<>>, interfaces |-> EmptyDict]

Uncalled ==
    /\ call = "none"
    /\ report_arg = None
    /\ report = NoReport
    /\ full_state = NoFullState
    /\ raised = None
    /\ earlier = {}
    /\ renders = 0
    /\ output = <<>>

AttributeSnapshots ==
    InitAddresses \/ InitNameservers \/ InitSearch \/ InitRoutes \/ InitMac

InitIdentity == IdentitySnapshots /\ Uncalled

InitAttributes == AttributeSnapshots /\ Uncalled

InitTables == InitTableNames /\ Uncalled

InitPartial == InitPartialLive /\ Uncalled

InitShadowed == InitShadowedName /\ Uncalled

InitFalsy == InitFalsyFields /\ Uncalled

Init ==
    (IdentitySnapshots \/ AttributeSnapshots \/ InitTableNames \/ InitPartialLive
     \/ InitShadowedName \/ InitFalsyFields)
    /\ Uncalled

\* the names a caller may pass to get_diff
InterfaceArgs == {"eth0", "eth1", "lan"}

\* the call of the engine the object served last
LastCall ==
    IF call = "none" THEN {}
    ELSE IF call = "get_full_state" THEN {"get_full_state"} ELSE {"get_diff"}

\* what every call of the engine leaves behind
Called ==
    /\ earlier' = earlier \cup LastCall
    /\ renders' = 0
    /\ output' = <<>>
    /\ system_data' = SystemDataAfterCall(system_data)
    /\ UNCHANGED <<interface_list, netdefs>>

\* diff.get_diff()
GetDiff ==
    /\ call' = "get_diff"
    /\ report_arg' = None
    /\ raised' = get_diff_raises(None)
    /\ report' = IF raised' = None THEN get_diff(None) ELSE NoReport
    /\ full_state' = NoFullState
    /\ Called

\* diff.get_diff(interface)
GetDiffInterface ==
    \E interface \in InterfaceArgs :
        /\ call' = "get_diff"
        /\ report_arg' = interface
        /\ raised' = get_diff_raises(interface)
        /\ report' = IF raised' = None THEN get_diff(interface) ELSE NoReport
        /\ full_state' = NoFullState
        /\ Called

\* diff.get_full_state()
GetFullState ==
    /\ call' = "get_full_state"
    /\ report_arg' = None
    /\ report' = NoReport
    /\ full_state' = get_full_state
    /\ raised' = None
    /\ Called

\* NetplanDiff.print_table(report), on the report of the get_diff call the
\* command made on the object it has just built
PrintTable ==
    /\ call \in {"get_diff", "print_table"}
    /\ earlier = {}
    /\ raised = None
    /\ renders < MaxRenders
    /\ call' = "print_table"
    /\ output' = print_table(report)
    /\ report' = RenderedReport(report)
    /\ renders' = renders + 1
    /\ UNCHANGED <<snapshots, report_arg, full_state, raised, earlier>>

\* NetplanStatus.pretty_print in diff mode, state_diff being the report of the
\* get_diff call the command made on the object it has just built
PrettyPrint ==
    /\ call = "get_diff"
    /\ earlier = {}
    /\ raised = None
    /\ call' = "pretty_print"
    /\ raised' = pretty_print_raises(report)
    /\ output' = MissingLines(report)
    /\ UNCHANGED <<snapshots, report_arg, report, full_state, earlier, renders>>

Next == GetDiff \/ GetDiffInterface \/ GetFullState \/ PrintTable \/ PrettyPrint

Spec == Init /\ [][Next]_vars

\* the snapshots in which names and ids vary
SpecIdentity == InitIdentity /\ [][Next]_vars

\* the snapshots in which the attributes of one matched interface vary
SpecAttributes == InitAttributes /\ [][Next]_vars

\* the snapshots in which the table names of the live routes vary
SpecTables == InitTables /\ [][Next]_vars

\* the snapshots in which optional attributes of the live interface are absent
SpecPartial == InitPartial /\ [][Next]_vars

\* the snapshots in which a declared id may be the name of the live interface
SpecShadowed == InitShadowed /\ [][Next]_vars

\* the snapshots in which fields of the live routes are absent or falsy
SpecFalsy == InitFalsy /\ [][Next]_vars

(***************************************************************************)
(* Vocabulary of the properties, read off the snapshots                    *)
(***************************************************************************)
Returned == call = "get_diff" /\ raised = None
Unfiltered == Returned /\ report_arg = None

Live == Range(LiveItems(system_data))
LiveId(item) == Get(item[2], "id", None)
DeclaredIds == Range(Keys(netdefs))

\* no two live interfaces carry the same declared-id
UniqueLiveIds ==
    \A a, b \in Live : TruthyStr(LiveId(a)) /\ LiveId(a) = LiveId(b) => a = b

\* a live interface whose declared-id exists in the declared snapshot
Matched == {item \in Live : TruthyStr(LiveId(item)) /\ LiveId(item) \in DeclaredIds}

\* the live interfaces whose data the report entry under their id holds
Reported == {item \in Live : /\ TruthyStr(LiveId(item))
                             /\ LiveId(item) \in DOMAIN report.interfaces
                             /\ report.interfaces[LiveId(item)].name = item[1]}

EntryOf(item) == report.interfaces[LiveId(item)]

\* the netdef of a live interface; nothing is declared for an unknown id
DeclaredOf(item) ==
    IF LiveId(item) \in DeclaredIds THEN NetdefOf(netdefs, LiveId(item)) ELSE PlainNetdef

\* the values of a missing_* list of an entry; none when the key is absent
Missing(entry, side, key) == Range(Get(entry[side], key, <<>>))

Categories == {"addresses", "nameservers", "search_domains", "routes"}
MissingKey(category) ==
    CASE category = "addresses" -> "missing_addresses"
      [] category = "nameservers" -> "missing_nameservers"
      [] category = "search_domains" -> "missing_search_domains"
      [] category = "routes" -> "missing_routes"

LiveAddresses(item) == Range(Get(item[2], "addresses", <<>>))
LiveRoutes(item) == Range(Get(item[2], "routes", <<>>))
AddressFlags(addr) == Get(addr.data, "flags", {})

\* the declared set of a category
DeclaredSet(category, item) ==
    LET netdef == DeclaredOf(item)
    IN  CASE category = "addresses" ->
               {netdef.addresses[i].addr : i \in DOMAIN netdef.addresses}
          [] category = "nameservers" -> Range(netdef.nameserver_addresses)
          [] category = "search_domains" -> Range(netdef.nameserver_search)
          [] category = "routes" -> Range(netdef.routes)

\* whether the route heuristics call a normalized live route automatic
AutomaticRoute(route, item) ==
    \/ route.scope = "link"
    \/ route.protocol \in {"dhcp", "ra"}
    \/ route.to # "default" /\ is_link_local(route.to)
    \/ route.scope = "host" /\ route.type = "local" /\ route.to = route.from_addr
    \/ route.family = 10 /\ route.type = "multicast" /\ route.to = "ff00::/8"
    \/ \E addr \in LiveAddresses(item) :
          route.to \in {network_of(full_addr(addr)), addr.ip}

\* the live set of a category after that category's heuristics
ComparisonSet(category, item) ==
    LET netdef == DeclaredOf(item)
        ra_gateways == {r.via : r \in {x \in LiveRoutes(item) :
                            Get(x, "protocol", None) = "ra" /\ "via" \in DOMAIN x}}
        dynamic(ns) == \/ ns \in ra_gateways
                       \/ /\ netdef.nameserver_addresses = <<>>
                          /\ \/ netdef.dhcp4 /\ ns \in IPv4Strings
                             \/ netdef.dhcp6 /\ ns \in IPv6Strings
    IN  CASE category = "addresses" ->
               {full_addr(addr) : addr \in {a \in LiveAddresses(item) :
                                      AddressFlags(a) \cap {"dhcp", "link"} = {}}}
          [] category = "nameservers" ->
               {ns \in Range(Get(item[2], "dns_addresses", <<>>)) : ~ dynamic(ns)}
          [] category = "search_domains" ->
               IF netdef.nameserver_search = <<>> /\ (netdef.dhcp4 \/ netdef.dhcp6)
               THEN {} ELSE Range(Get(item[2], "dns_search", <<>>))
          [] category = "routes" ->
               {route \in {_system_route_to_netplan(r) : r \in LiveRoutes(item)} :
                   ~ AutomaticRoute(route, item)}

\* the entry records the two differences of every category
RecordsDifferences(item) ==
    \A category \in Categories :
        /\ Missing(EntryOf(item), "system_state", MissingKey(category))
             = DeclaredSet(category, item) \ ComparisonSet(category, item)
        /\ Missing(EntryOf(item), "netplan_state", MissingKey(category))
             = ComparisonSet(category, item) \ DeclaredSet(category, item)

(***************************************************************************)
(* C1                                                                      *)
(***************************************************************************)
\* C1: for every matched interface and every category, the report of
\* get_diff() holds system_state.missing_<category> = declared set minus live
\* comparison set and netplan_state.missing_<category> = live comparison set
\* minus declared set.
C1_DifferencesOfEveryMatched ==
    Unfiltered /\ UniqueLiveIds =>
        \A item \in Matched : item \in Reported /\ RecordsDifferences(item)

\* What the code does keep: every entry of a report holds the two differences
\* of the interface it names.
DifferencesOfEveryReported ==
    Returned /\ UniqueLiveIds => \A item \in Reported : RecordsDifferences(item)

(***************************************************************************)
(* C2                                                                      *)
(***************************************************************************)
\* C2: a live address that carries the dhcp flag is in no missing_addresses
\* list of its interface, under netplan_state or under system_state, whatever
\* addresses are declared.
C2_DhcpAddressNeverMissing ==
    Returned =>
        \A item \in Reported : \A addr \in LiveAddresses(item) :
            "dhcp" \in AddressFlags(addr) =>
                /\ full_addr(addr) \notin
                       Missing(EntryOf(item), "netplan_state", "missing_addresses")
                /\ full_addr(addr) \notin
                       Missing(EntryOf(item), "system_state", "missing_addresses")

\* What the code does keep: such an address is never reported as missing in
\* Netplan, and is reported as missing in the system exactly when the same
\* address is declared.
DhcpAddressMissingOnlyIfDeclared ==
    Returned =>
        \A item \in Reported : \A addr \in LiveAddresses(item) :
            "dhcp" \in AddressFlags(addr) =>
                /\ full_addr(addr) \notin
                       Missing(EntryOf(item), "netplan_state", "missing_addresses")
                /\ full_addr(addr) \in
                       Missing(EntryOf(item), "system_state", "missing_addresses")
                   <=> full_addr(addr) \in DeclaredSet("addresses", item)

(***************************************************************************)
(* C3                                                                      *)
(***************************************************************************)
\* whether a live address of the family carries the dhcp flag
HasDhcpAddress(item, strings) ==
    \E addr \in LiveAddresses(item) : "dhcp" \in AddressFlags(addr) /\ addr.ip \in strings

RecordedTrue(item, key) ==
    /\ item \in Reported
    /\ key \in DOMAIN EntryOf(item).system_state
    /\ EntryOf(item).system_state[key] = TRUE

MissingDhcpExactly(item) ==
    /\ RecordedTrue(item, "missing_dhcp4_address")
         <=> DeclaredOf(item).dhcp4 /\ ~ HasDhcpAddress(item, IPv4Strings)
    /\ RecordedTrue(item, "missing_dhcp6_address")
         <=> DeclaredOf(item).dhcp6 /\ ~ HasDhcpAddress(item, IPv6Strings)
    /\ item \in Reported =>
         \A key \in {"missing_dhcp4_address", "missing_dhcp6_address"} :
            key \in DOMAIN EntryOf(item).system_state => RecordedTrue(item, key)

\* C3: for a matched interface, system_state.missing_dhcp4_address is
\* recorded, as true, exactly when DHCPv4 is declared and no live IPv4 address
\* carries the dhcp flag; likewise missing_dhcp6_address, DHCPv6 and IPv6.
C3_MissingDhcpOfEveryMatched ==
    Unfiltered /\ UniqueLiveIds => \A item \in Matched : MissingDhcpExactly(item)

\* What the code does keep: the same, for the interfaces a report names.
MissingDhcpOfEveryReported ==
    Returned /\ UniqueLiveIds => \A item \in Reported : MissingDhcpExactly(item)

(***************************************************************************)
(* C4                                                                      *)
(***************************************************************************)
DynamicRoute(route) ==
    \/ route.protocol \in {"ra", "dhcp"}
    \/ route.scope = "link"
    \/ route.to # "default" /\ is_link_local(route.to)

\* C4: a live route with protocol ra or dhcp, with scope link, or with a
\* link-local destination other than 'default' is in no missing_routes list
\* of its interface, on either side, whatever routes are declared.
C4_DynamicRouteNeverMissing ==
    Returned =>
        \A item \in Reported : \A raw \in LiveRoutes(item) :
            LET route == _system_route_to_netplan(raw)
            IN  DynamicRoute(route) =>
                    /\ route \notin Missing(EntryOf(item), "netplan_state", "missing_routes")
                    /\ route \notin Missing(EntryOf(item), "system_state", "missing_routes")

\* What the code does keep: such a route is never reported as missing in
\* Netplan, and is reported as missing in the system exactly when an equal
\* route is declared.
DynamicRouteMissingOnlyIfDeclared ==
    Returned =>
        \A item \in Reported : \A raw \in LiveRoutes(item) :
            LET route == _system_route_to_netplan(raw)
            IN  DynamicRoute(route) =>
                    /\ route \notin Missing(EntryOf(item), "netplan_state", "missing_routes")
                    /\ route \in Missing(EntryOf(item), "system_state", "missing_routes")
                       <=> route \in DeclaredSet("routes", item)

(***************************************************************************)
(* C5                                                                      *)
(***************************************************************************)
\* C5: get_diff() returns, for every live interface that carries a declared-id
\* of the declared snapshot (declared-ids unique among live interfaces), an
\* entry of report.interfaces keyed by that id whose 'name' is the interface.
C5_EntryForEveryMatched ==
    Unfiltered /\ UniqueLiveIds => \A item \in Matched : item \in Reported

\* the unmatched declared ids: no live interface carries them
UnmatchedIds == {id \in DeclaredIds : \A item \in Live : LiveId(item) # id}

\* What the code does keep: the entry exists unless the interface's name is
\* an unmatched declared id.
EntryUnlessNameIsUnmatchedId ==
    Unfiltered /\ UniqueLiveIds =>
        \A item \in Matched : item \in Reported <=> item[1] \notin UnmatchedIds

(***************************************************************************)
(* C6                                                                      *)
(***************************************************************************)
Strings == Range(StrOrder)

Carried(id) == \E i \in DOMAIN interface_list : interface_list[i].netdef_id = id

\* C6: a declared id D is listed in missing_interfaces_system if and only if
\* D is in the declared snapshot, its type is not 'wifis' and no interface of
\* the live interface list carries D as its declared-id.
C6_MissingInterfacesSystem ==
    Returned =>
        \A D \in Strings :
            D \in Range(report.missing_interfaces_system)
            <=> /\ D \in DeclaredIds
                /\ NetdefOf(netdefs, D).type # "wifis"
                /\ ~ Carried(D)

\* a wireless definition without live counterpart beside a wired one
C6_Witness ==
    /\ Returned
    /\ \E D \in DeclaredIds : NetdefOf(netdefs, D).type = "wifis" /\ ~ Carried(D)
    /\ report.missing_interfaces_system # <<>>
    /\ interface_list # <<>>

(***************************************************************************)
(* C7                                                                      *)
(***************************************************************************)
\* C7: a live interface name N is listed in missing_interfaces_netplan if and
\* only if N is in the live interface list, N is not 'lo', and the interface's
\* declared-id is unset or is not a declared id.
C7_MissingInterfacesNetplan ==
    Returned =>
        \A N \in Strings :
            N \in Range(report.missing_interfaces_netplan)
            <=> \E i \in DOMAIN interface_list :
                    /\ interface_list[i].name = N
                    /\ N # "lo"
                    /\ \/ ~ TruthyStr(interface_list[i].netdef_id)
                       \/ interface_list[i].netdef_id \notin DeclaredIds

\* the loopback interface, undeclared, beside an undeclared interface
C7_Witness ==
    /\ Returned
    /\ \E i \in DOMAIN interface_list :
          /\ interface_list[i].name = "lo"
          /\ interface_list[i].netdef_id \notin DeclaredIds
    /\ report.missing_interfaces_netplan # <<>>
    /\ netdefs # <<>>

(***************************************************************************)
(* C8                                                                      *)
(***************************************************************************)
MacRecorded(item) ==
    /\ item \in Reported
    /\ "missing_macaddress" \in DOMAIN EntryOf(item).system_state
    /\ "missing_macaddress" \in DOMAIN EntryOf(item).netplan_state

MacNotRecorded(item) ==
    item \in Reported =>
        /\ "missing_macaddress" \notin DOMAIN EntryOf(item).system_state
        /\ "missing_macaddress" \notin DOMAIN EntryOf(item).netplan_state

MacExactly(item) ==
    LET live == Get(item[2], "macaddress", None)
        declared == DeclaredOf(item).macaddress
    IN  IF TruthyStr(live) /\ TruthyStr(declared) /\ live # declared
        THEN /\ MacRecorded(item)
             /\ EntryOf(item).system_state["missing_macaddress"] = declared
             /\ EntryOf(item).netplan_state["missing_macaddress"] = live
        ELSE MacNotRecorded(item)

\* C8: for a matched interface, missing_macaddress is recorded if and only if
\* both sides have a MAC address and the two differ; then system_state holds
\* the declared MAC and netplan_state the live MAC.
C8_MacOfEveryMatched ==
    Unfiltered /\ UniqueLiveIds => \A item \in Matched : MacExactly(item)

\* What the code does keep: the same, for the interfaces a report names.
MacOfEveryReported ==
    Returned /\ UniqueLiveIds => \A item \in Reported : MacExactly(item)

(***************************************************************************)
(* C9                                                                      *)
(***************************************************************************)
\* C9: in every report entry and for every category, the lists
\* system_state.missing_<category> and netplan_state.missing_<category> have
\* no value in common.
C9_MissingListsDisjoint ==
    Returned =>
        \A id \in DOMAIN report.interfaces : \A category \in Categories :
            Missing(report.interfaces[id], "system_state", MissingKey(category))
            \cap Missing(report.interfaces[id], "netplan_state", MissingKey(category))
            = {}

\* an entry with a missing route on both sides, one of them declared and live
C9_Witness ==
    /\ Returned
    /\ \E item \in Reported :
          /\ Missing(EntryOf(item), "system_state", "missing_routes") # {}
          /\ Missing(EntryOf(item), "netplan_state", "missing_routes") # {}
          /\ DeclaredSet("routes", item) \cap ComparisonSet("routes", item) # {}

(***************************************************************************)
(* C10                                                                     *)
(***************************************************************************)
\* C10: report.interfaces has entries only for live interfaces that carry a
\* declared-id: a live interface without one never gets an entry, and a
\* declared id with no live counterpart never gets an entry.
C10_EntriesOnlyForLiveWithId ==
    Returned =>
        /\ \A id \in DOMAIN report.interfaces :
              \E item \in Live : LiveId(item) = id /\ item[1] = report.interfaces[id].name
        /\ \A item \in Live :
              ~ TruthyStr(LiveId(item)) =>
                  \A id \in DOMAIN report.interfaces : report.interfaces[id].name # item[1]
        /\ \A id \in UnmatchedIds : id \notin DOMAIN report.interfaces

\* a report with an entry, from snapshots with a live interface without
\* declared-id and a declared id without live counterpart
C10_Witness ==
    /\ Unfiltered
    /\ report.interfaces # EmptyDict
    /\ \E item \in Live : ~ TruthyStr(LiveId(item))
    /\ UnmatchedIds # {}

(***************************************************************************)
(* C11                                                                     *)
(***************************************************************************)
\* the entries of the unfiltered report whose 'name' is the given one
EntriesNamed(name) ==
    LET all == get_diff(None).interfaces
    IN  [id \in {k \in DOMAIN all : all[k].name = name} |-> all[id]]

\* C11: for any interface name X, with declared-ids unique among the live
\* interfaces, get_diff(X) returns the missing_interfaces_system and
\* missing_interfaces_netplan lists of get_diff(), and its interfaces map
\* holds exactly the entries of the unfiltered report whose 'name' is X
\* (none when X is unknown).
C11_FilterKeepsEntriesOfName ==
    (Returned /\ TruthyStr(report_arg) /\ UniqueLiveIds) =>
        /\ report.missing_interfaces_system = get_diff(None).missing_interfaces_system
        /\ report.missing_interfaces_netplan = get_diff(None).missing_interfaces_netplan
        /\ report.interfaces = EntriesNamed(report_arg)

\* a filtered report with one entry where the unfiltered report has two, and
\* with both missing-interface lists non-empty
C11_Witness ==
    /\ Returned /\ TruthyStr(report_arg) /\ UniqueLiveIds
    /\ Cardinality(DOMAIN report.interfaces) = 1
    /\ Cardinality(DOMAIN get_diff(None).interfaces) = 2

\* a filtered report for a name no container has: no entry, the missing lists
\* as in the unfiltered report
C11_UnknownName ==
    /\ Returned /\ TruthyStr(report_arg) /\ UniqueLiveIds
    /\ report_arg \notin DOMAIN get_full_state.interfaces
    /\ report.interfaces = EmptyDict
    /\ get_diff(None).interfaces # EmptyDict
    /\ report.missing_interfaces_netplan # <<>>

(***************************************************************************)
(* C12                                                                     *)
(***************************************************************************)
\* the number the table name of a live route stands for
TableNumber(name) ==
    CASE name = "default" -> 253
      [] name = "main" -> 254
      [] name = "local" -> 255
      [] name = "1000" -> 1000
      [] name = "100" -> 100
      [] name = "254" -> 254
      [] name = " 7 " -> 7
      [] name = "-1" -> 0 - 1
      [] OTHER -> 0

\* the live routes of the matched interface "eth1" and their normalized form
MatchedLive == system_data[2][2]
RawRoutes == Get(MatchedLive, "routes", <<>>)
NormalizedRoutes ==
    Get(full_state.interfaces["eth1"].system_state, "routes", <<>>)

\* C12: table normalization maps 'default' to 253, 'main' to 254, 'local' to
\* 255, any other string that parses as an integer to that integer and every
\* other string to 0, never raising; the normalized table of a live route is
\* that number, and normalizing a normalized value returns it unchanged.
C12_TableNormalization ==
    /\ \A i \in DOMAIN TableNamePool :
          _default_tables_name_to_number([str |-> TableNamePool[i]])
              = TableNumber(TableNamePool[i])
    /\ call = "get_full_state" =>
          /\ DOMAIN NormalizedRoutes = DOMAIN RawRoutes
          /\ \A i \in DOMAIN RawRoutes :
                LET table == NormalizedRoutes[i].table
                IN  /\ table = TableNumber(RawRoutes[i].table)
                    /\ _default_tables_name_to_number([int |-> table]) = table

\* get_full_state has normalized a route of table 'main' and one whose table
\* is no number
C12_Witness ==
    /\ call = "get_full_state"
    /\ \E i, j \in DOMAIN RawRoutes :
          /\ RawRoutes[i].table = "main" /\ NormalizedRoutes[i].table = 254
          /\ RawRoutes[j].table = "blah" /\ NormalizedRoutes[j].table = 0

(***************************************************************************)
(* C13                                                                     *)
(***************************************************************************)
Ascending(list) ==
    \A i, j \in DOMAIN list : i < j => ~ StrLess(list[j], list[i])

\* the names of the live interface list that no declared id covers, in the
\* order of the list
UndeclaredNames ==
    SelectSeq([i \in DOMAIN interface_list |-> interface_list[i].name],
              LAMBDA name : name \in Range(report.missing_interfaces_netplan))

\* C13: in every report of get_diff, missing_interfaces_system and
\* missing_interfaces_netplan are each sorted in ascending lexicographic
\* order, whatever the order of the declared ids and of the live interfaces.
C13_MissingListsSorted ==
    Returned =>
        /\ Ascending(report.missing_interfaces_system)
        /\ Ascending(report.missing_interfaces_netplan)

\* both lists hold two names, and the live interface list and the declared
\* ids both come in descending order
C13_Witness ==
    /\ Returned
    /\ Len(report.missing_interfaces_system) = 2
    /\ Len(report.missing_interfaces_netplan) = 2
    /\ ~ Ascending(UndeclaredNames)
    /\ ~ Ascending(Keys(netdefs))

(***************************************************************************)
(* C14                                                                     *)
(***************************************************************************)
\* C14: get_diff and get_full_state complete and return a result whatever
\* optional attribute of a live interface is absent (an address without
\* prefix or flags, a route without 'to' or any other field, no DNS lists, no
\* MAC, no declared-id): no call ends with an error.
C14_AbsentAttributeNeverRaises == raised = None

\* a live address without prefix
WithoutPrefix(item) ==
    \E addr \in LiveAddresses(item) : "prefix" \notin DOMAIN addr.data

\* a live route without destination that is neither link-scoped nor installed
\* by DHCP or RA
WithoutDestination(item) ==
    \E route \in LiveRoutes(item) :
        /\ ~ TruthyStr(Get(route, "to", None))
        /\ Get(route, "scope", None) # "link"
        /\ Get(route, "protocol", None) \notin {"dhcp", "ra"}

\* what the code does: get_full_state always returns, and get_diff raises
\* ValueError exactly when an interface it analyses (one with a declared-id,
\* that the filter selects) has an address without prefix or such a route
RaisesExactlyOnPrefixOrDestination ==
    /\ call = "get_full_state" => raised = None
    /\ call = "get_diff" =>
          (raised = "ValueError" <=>
              \E item \in Live :
                 /\ TruthyStr(LiveId(item))
                 /\ report_arg \in {None, item[1]}
                 /\ WithoutPrefix(item) \/ WithoutDestination(item))

\* get_diff returned a report for an interface whose addresses have no flags
\* and whose route has only a destination, without DNS lists and MAC
C14_ReturnedForPartial ==
    /\ Returned /\ report.interfaces # EmptyDict
    /\ \E item \in Live :
          /\ DOMAIN item[2] = {"name", "id", "addresses", "routes"}
          /\ \A addr \in LiveAddresses(item) : "flags" \notin DOMAIN addr.data
          /\ \A route \in LiveRoutes(item) : DOMAIN route = {"to"}

(***************************************************************************)
(* C15                                                                     *)
(***************************************************************************)
\* the conditions under which a live route is taken out of the comparison
Discarded(route, item) ==
    \/ route.scope = "link"
    \/ route.protocol = "dhcp"
    \/ route.protocol = "ra"
    \/ route.to # "default" /\ route.to \in LinkLocalDestinations
    \/ route.scope = "host" /\ route.type = "local" /\ route.to = route.from_addr
    \/ route.family = 10 /\ route.type = "multicast" /\ route.to = "ff00::/8"
    \/ \E addr \in LiveAddresses(item) : route.to = network_of(full_addr(addr))
    \/ \E addr \in LiveAddresses(item) : route.to = addr.ip

NormalizedLiveRoutes(item) == {_system_route_to_netplan(raw) : raw \in LiveRoutes(item)}

\* C15: a live route is kept in the route comparison set if and only if it is
\* not link-scoped, not installed by DHCP or RA, not link-local (unless
\* 'default'), not a host-scoped local self-route, not the IPv6 multicast
\* route to ff00::/8 and not a route to a network or address of the
\* interface; every kept route that is not declared is listed in
\* netplan_state.missing_routes.
C15_KeptRoutes ==
    Returned =>
        \A item \in Reported :
            /\ _filter_system_routes(NormalizedLiveRoutes(item),
                                     {full_addr(addr) : addr \in LiveAddresses(item)})
                   = {route \in NormalizedLiveRoutes(item) : ~ Discarded(route, item)}
            /\ \A route \in NormalizedLiveRoutes(item) :
                   route \in Missing(EntryOf(item), "netplan_state", "missing_routes")
                       <=> /\ ~ Discarded(route, item)
                           /\ route \notin DeclaredSet("routes", item)

\* an interface with an address, a route to its network and a route that is
\* kept and listed
C15_Witness ==
    /\ Returned
    /\ \E item \in Reported :
          /\ LiveAddresses(item) # {}
          /\ \E route \in NormalizedLiveRoutes(item) :
                /\ \E addr \in LiveAddresses(item) :
                      route.to = network_of(full_addr(addr))
                /\ route.scope # "link" /\ route.protocol \notin {"dhcp", "ra"}
          /\ Missing(EntryOf(item), "netplan_state", "missing_routes") # {}

(***************************************************************************)
(* C16, C17                                                                *)
(***************************************************************************)
LiveNameservers(item) == Range(Get(item[2], "dns_addresses", <<>>))
MissingNameservers(item) ==
    Missing(EntryOf(item), "netplan_state", "missing_nameservers")

\* the gateways of the live routes of a protocol
Gateways(item, protocols) ==
    {route.via : route \in {r \in LiveRoutes(item) :
                      /\ Get(r, "protocol", None) \in protocols
                      /\ TruthyStr(Get(r, "via", None))}}

\* a live nameserver the declared side does not account for
Undeclared(ns, item) ==
    /\ ns \notin DeclaredSet("nameservers", item)
    /\ ns \notin Gateways(item, {"ra"})

\* C16: when the declared nameserver list of a matched interface is empty and
\* DHCPv4 is declared enabled, no live IPv4 nameserver is in
\* netplan_state.missing_nameservers, and likewise for DHCPv6 and IPv6; DHCP
\* of one family alone does not hide the nameservers of the other, and
\* nothing is hidden when the declared list is not empty.
C16_DhcpNameserversPerFamily ==
    Returned =>
        \A item \in Reported : \A ns \in LiveNameservers(item) :
            LET netdef == DeclaredOf(item)
                empty == netdef.nameserver_addresses = <<>>
            IN  /\ (empty /\ netdef.dhcp4 /\ ns \in IPv4Strings)
                       => ns \notin MissingNameservers(item)
                /\ (empty /\ netdef.dhcp6 /\ ns \in IPv6Strings)
                       => ns \notin MissingNameservers(item)
                /\ (empty /\ ~ netdef.dhcp6 /\ ns \in IPv6Strings /\ Undeclared(ns, item))
                       => ns \in MissingNameservers(item)
                /\ (empty /\ ~ netdef.dhcp4 /\ ns \in IPv4Strings /\ Undeclared(ns, item))
                       => ns \in MissingNameservers(item)
                /\ (~ empty /\ Undeclared(ns, item))
                       => ns \in MissingNameservers(item)

\* DHCPv4 alone, nothing declared, a live IPv4 and a live IPv6 nameserver:
\* only the IPv6 one is listed
C16_Witness ==
    /\ Returned
    /\ \E item \in Reported :
          /\ DeclaredOf(item).nameserver_addresses = <<>>
          /\ DeclaredOf(item).dhcp4 /\ ~ DeclaredOf(item).dhcp6
          /\ LiveNameservers(item) \cap IPv4Strings # {}
          /\ MissingNameservers(item) # {}
          /\ MissingNameservers(item) \subseteq IPv6Strings

\* C17: a live nameserver that equals the gateway (via) of a live route of the
\* interface whose protocol is 'ra' is never in
\* netplan_state.missing_nameservers; one that equals only the gateway of
\* routes of another protocol is not suppressed by that.
C17_RaGatewayNameservers ==
    Returned =>
        \A item \in Reported : \A ns \in LiveNameservers(item) :
            LET netdef == DeclaredOf(item)
                by_dhcp == /\ netdef.nameserver_addresses = <<>>
                           /\ \/ netdef.dhcp4 /\ ns \in IPv4Strings
                              \/ netdef.dhcp6 /\ ns \in IPv6Strings
            IN  /\ ns \in Gateways(item, {"ra"}) => ns \notin MissingNameservers(item)
                /\ (/\ ns \in Gateways(item, {"static", "kernel", "dhcp"})
                    /\ ns \notin Gateways(item, {"ra"})
                    /\ ns \notin DeclaredSet("nameservers", item)
                    /\ ~ by_dhcp)
                       => ns \in MissingNameservers(item)

\* a live nameserver that is the gateway of an RA route and one that is the
\* gateway of a static route: only the second is listed
C17_Witness ==
    /\ Returned
    /\ \E item \in Reported :
          /\ \E ns \in LiveNameservers(item) \cap Gateways(item, {"ra"}) :
                ns \notin MissingNameservers(item)
          /\ \E ns \in LiveNameservers(item) \cap Gateways(item, {"static"}) :
                ns \in MissingNameservers(item)

(***************************************************************************)
(* C18                                                                     *)
(***************************************************************************)
LiveSearch(item) == Range(Get(item[2], "dns_search", <<>>))

\* the entry of the interface is as the rule for search domains has it
SearchDomainsExactly(item) ==
    LET netdef == DeclaredOf(item)
        undeclared == LiveSearch(item) \ Range(netdef.nameserver_search)
    IN  /\ (netdef.nameserver_search = <<>> /\ (netdef.dhcp4 \/ netdef.dhcp6))
               => (item \in Reported =>
                      /\ "missing_search_domains" \notin DOMAIN EntryOf(item).system_state
                      /\ "missing_search_domains" \notin DOMAIN EntryOf(item).netplan_state)
        /\ (netdef.nameserver_search # <<>> /\ undeclared # {})
               => /\ item \in Reported
                  /\ Missing(EntryOf(item), "netplan_state", "missing_search_domains")
                         = undeclared

\* C18: when the declared search-domain list of a matched interface is empty
\* and DHCPv4 or DHCPv6 is declared enabled, no missing_search_domains is
\* recorded on either side; when the declared list is not empty, the live
\* search domains that are not declared are listed in
\* netplan_state.missing_search_domains even if DHCP is enabled.
C18_DhcpSearchDomains ==
    Unfiltered => \A item \in Matched : SearchDomainsExactly(item)

\* What the code does keep: the same, for the interfaces a report names.
SearchDomainsOfEveryReported ==
    Returned => \A item \in Reported : SearchDomainsExactly(item)

\* DHCP enabled and live search domains: nothing recorded when none is
\* declared
C18_Witness ==
    /\ Returned
    /\ \E item \in Reported :
          /\ DeclaredOf(item).nameserver_search = <<>>
          /\ DeclaredOf(item).dhcp4
          /\ LiveSearch(item) # {}
          /\ "missing_search_domains" \notin DOMAIN EntryOf(item).netplan_state

\* DHCP enabled, a search domain declared and another one live: it is listed
C18_WitnessDeclared ==
    /\ Returned
    /\ \E item \in Reported :
          /\ DeclaredOf(item).nameserver_search # <<>>
          /\ DeclaredOf(item).dhcp6
          /\ Missing(EntryOf(item), "netplan_state", "missing_search_domains") # {}

(***************************************************************************)
(* C19                                                                     *)
(***************************************************************************)
LiveNamesOf == {item[1] : item \in Live}

\* the key of the container of a declared id: the live interface that carries
\* it, the id itself when none does
ContainerOf(id) ==
    IF \E item \in Live : LiveId(item) = id
    THEN (CHOOSE item \in Live : LiveId(item) = id)[1]
    ELSE id

\* C19: in the result of get_full_state, for all combinations of live
\* interface names and declared ids, the container of every live interface
\* has a system_state and the container of every declared id has a
\* netplan_state; system_state is absent only from a container without live
\* interface, netplan_state only where the interface has nothing declared.
C19_FullStateContainers ==
    call = "get_full_state" =>
        /\ \A name \in LiveNamesOf :
              /\ name \in DOMAIN full_state.interfaces
              /\ "system_state" \in DOMAIN full_state.interfaces[name]
        /\ \A id \in DeclaredIds :
              /\ ContainerOf(id) \in DOMAIN full_state.interfaces
              /\ "netplan_state" \in DOMAIN full_state.interfaces[ContainerOf(id)]
        /\ \A key \in DOMAIN full_state.interfaces :
              /\ "system_state" \notin DOMAIN full_state.interfaces[key]
                     => key \notin LiveNamesOf
              /\ "netplan_state" \notin DOMAIN full_state.interfaces[key]
                     => \A item \in Live : item[1] = key => LiveId(item) \notin DeclaredIds

\* What the code keeps, with declared-ids unique among the live interfaces:
\* the same, except that a live interface whose name is a declared id no live
\* interface carries has lost its system_state.
ContainersUnlessNameIsUnmatchedId ==
    (call = "get_full_state" /\ UniqueLiveIds) =>
        /\ \A name \in LiveNamesOf :
              /\ name \in DOMAIN full_state.interfaces
              /\ "system_state" \in DOMAIN full_state.interfaces[name]
                     <=> name \notin UnmatchedIds
        /\ \A id \in DeclaredIds :
              /\ ContainerOf(id) \in DOMAIN full_state.interfaces
              /\ "netplan_state" \in DOMAIN full_state.interfaces[ContainerOf(id)]
        /\ \A key \in DOMAIN full_state.interfaces :
              "netplan_state" \notin DOMAIN full_state.interfaces[key]
                  => \A item \in Live : item[1] = key => LiveId(item) \notin DeclaredIds

(***************************************************************************)
(* C20                                                                     *)
(***************************************************************************)
ListKeys ==
    {"missing_addresses", "missing_nameservers", "missing_search_domains",
     "missing_routes"}
FlagKeys == {"missing_dhcp4_address", "missing_dhcp6_address"}

\* every missing_* key of a sub-record of an entry has a non-empty value
NonEmptyValues(state) ==
    /\ \A key \in DOMAIN state \cap ListKeys : state[key] # <<>>
    /\ \A key \in DOMAIN state \cap FlagKeys : state[key] = TRUE

\* nothing is configured for the interface on either side, and no DHCP
NothingConfigured(item) ==
    /\ DOMAIN item[2] \subseteq {"name", "type", "id"}
    /\ DeclaredOf(item) = [PlainNetdef EXCEPT !.type = DeclaredOf(item).type]

EmptyEntry(item) ==
    /\ EntryOf(item).system_state = EmptyDict
    /\ EntryOf(item).netplan_state = EmptyDict

\* C20: a missing_* key is recorded in a report entry only with a non-empty
\* value (no missing_* list is empty, no missing_dhcp4/6_address is false),
\* and a matched interface whose attributes are absent on both sides and that
\* declares no DHCP still gets an entry, with empty system_state and
\* netplan_state maps.
C20_NoEmptyValueAndEmptyEntry ==
    /\ Returned =>
          \A id \in DOMAIN report.interfaces :
              /\ NonEmptyValues(report.interfaces[id].system_state)
              /\ NonEmptyValues(report.interfaces[id].netplan_state)
    /\ Unfiltered =>
          \A item \in Matched :
              NothingConfigured(item) => item \in Reported /\ EmptyEntry(item)

\* What the code does keep: no empty value, and an empty entry for every such
\* interface that a report names.
NoEmptyValueAndEmptyEntryIfReported ==
    /\ Returned =>
          \A id \in DOMAIN report.interfaces :
              /\ NonEmptyValues(report.interfaces[id].system_state)
              /\ NonEmptyValues(report.interfaces[id].netplan_state)
    /\ Returned =>
          \A item \in Reported : NothingConfigured(item) => EmptyEntry(item)

\* a report with an entry whose two maps are empty, for an interface with
\* nothing configured
C20_EmptyEntryReported ==
    /\ Unfiltered
    /\ \E item \in Matched :
          NothingConfigured(item) /\ item \in Reported /\ EmptyEntry(item)

(***************************************************************************)
(* C21                                                                     *)
(***************************************************************************)
\* the nameservers that are both declared and live
ConfiguredNameservers(item) ==
    LiveNameservers(item) \cap DeclaredSet("nameservers", item)

NameserversMissingInSystem(item) ==
    Missing(EntryOf(item), "system_state", "missing_nameservers")

\* C21: a nameserver address that is both in the declared and in the live
\* nameserver list of a matched interface is never reported in
\* missing_nameservers, on either side, whatever routes the interface has.
C21_ConfiguredNameserverNeverMissing ==
    Returned =>
        \A item \in Reported : \A ns \in ConfiguredNameservers(item) :
            /\ ns \notin MissingNameservers(item)
            /\ ns \notin NameserversMissingInSystem(item)

\* C21 as the code has it: such a nameserver is never in
\* netplan_state.missing_nameservers, and it is in
\* system_state.missing_nameservers exactly when it is the gateway of a live
\* RA route of the interface.
C21_ConfiguredNameserverUnlessRaGateway ==
    Returned =>
        \A item \in Reported : \A ns \in ConfiguredNameservers(item) :
            /\ ns \notin MissingNameservers(item)
            /\ ns \in NameserversMissingInSystem(item)
                   <=> ns \in Gateways(item, {"ra"})

\* two nameservers declared and live, one of them the gateway of an RA route:
\* only that one is reported as missing in the system
C21_Witness ==
    /\ Returned
    /\ \E item \in Reported :
          \E a, b \in ConfiguredNameservers(item) :
              /\ a \in Gateways(item, {"ra"})
              /\ a \in NameserversMissingInSystem(item)
              /\ b \notin Gateways(item, {"ra"})
              /\ b \notin NameserversMissingInSystem(item)

(***************************************************************************)
(* C22                                                                     *)
(***************************************************************************)
\* the interface list and the per-interface data describe the same interfaces
SameInterfaces == interface_list = InterfacesOf(system_data)

EntryNames == {report.interfaces[id].name : id \in DOMAIN report.interfaces}

\* C22: in an unfiltered report built from snapshots whose interface list and
\* per-interface data describe the same interfaces, no live interface is both
\* named in missing_interfaces_netplan and the 'name' of an entry of
\* report.interfaces, and every key of report.interfaces is a declared id.
C22_EntriesAreDeclared ==
    Unfiltered /\ SameInterfaces =>
        /\ Range(report.missing_interfaces_netplan) \cap EntryNames = {}
        /\ DOMAIN report.interfaces \subseteq DeclaredIds

\* What the code keeps: an entry is keyed by the id its live interface carries,
\* declared or not, and the interface is named in missing_interfaces_netplan
\* exactly when that id is not declared.
EntriesOfCarriedIds ==
    Unfiltered /\ SameInterfaces =>
        \A id \in DOMAIN report.interfaces :
            /\ \E item \in Live : LiveId(item) = id /\ item[1] = report.interfaces[id].name
            /\ id \notin DeclaredIds /\ report.interfaces[id].name # "lo"
                   => report.interfaces[id].name \in Range(report.missing_interfaces_netplan)

\* a live interface carries an id that is not declared: it has an entry under
\* that id and is named in missing_interfaces_netplan as well
C22_UndeclaredEntry ==
    /\ Unfiltered /\ SameInterfaces
    /\ \E id \in DOMAIN report.interfaces :
          /\ id \notin DeclaredIds
          /\ report.interfaces[id].name \in Range(report.missing_interfaces_netplan)

Unordered(state) ==
    [key \in DOMAIN state |->
        IF key \in ListKeys THEN [elements |-> Range(state[key])]
        ELSE [value |-> state[key]]]

\* two reports are equal up to the order inside the missing_* lists
SameUpToOrder(a, b) ==
    /\ a.missing_interfaces_system = b.missing_interfaces_system
    /\ a.missing_interfaces_netplan = b.missing_interfaces_netplan
    /\ DOMAIN a.interfaces = DOMAIN b.interfaces
    /\ \A id \in DOMAIN a.interfaces :
          /\ a.interfaces[id].name = b.interfaces[id].name
          /\ Unordered(a.interfaces[id].system_state)
                 = Unordered(b.interfaces[id].system_state)
          /\ Unordered(a.interfaces[id].netplan_state)
                 = Unordered(b.interfaces[id].netplan_state)

\* the report of an object built on these snapshots that has served no call
FirstReport(interface) ==
    get_diff_of(system_data, interface_list, netdefs, interface)

Rendered == call = "print_table"

\* C25: rendering a report with print_table leaves the report unchanged:
\* after any number of print_table calls every missing_* list of the report
\* holds exactly the values get_diff put there, so rendering the same report
\* again shows the rows the last rendering showed.
C25_PrintTableLeavesReport ==
    Rendered =>
        /\ report = FirstReport(report_arg)
        /\ print_table(report) = output

\* What print_table keeps: everything but the missing_addresses list of
\* system_state, which holds the values of get_diff followed by one DHCP marker
\* for each rendering and each missing_dhcp4/6_address flag of the entry.
RenderedReportButMarkers ==
    Rendered =>
        LET first == FirstReport(report_arg)
        IN  /\ [report EXCEPT !.interfaces = first.interfaces] = first
            /\ DOMAIN report.interfaces = DOMAIN first.interfaces
            /\ \A id \in DOMAIN first.interfaces :
                  LET was == first.interfaces[id]
                      is == report.interfaces[id]
                      addresses == Get(was.system_state, "missing_addresses", <<>>)
                  IN  /\ is.name = was.name
                      /\ is.netplan_state = was.netplan_state
                      /\ DOMAIN is.system_state = DOMAIN was.system_state
                      /\ \A key \in DOMAIN was.system_state \ {"missing_addresses"} :
                             is.system_state[key] = was.system_state[key]
                      /\ "missing_addresses" \in DOMAIN was.system_state =>
                             /\ Len(is.system_state.missing_addresses)
                                    = Len(addresses) + renders * Len(DhcpMarkers(was))
                             /\ SubSeq(is.system_state.missing_addresses, 1, Len(addresses))
                                    = addresses

\* the report was rendered twice and one of its lists holds the DHCPv4 marker
\* twice
C25_MarkerTwice ==
    /\ Rendered
    /\ renders = 2
    /\ \E id \in DOMAIN report.interfaces :
          LET list == Get(report.interfaces[id].system_state, "missing_addresses", <<>>)
          IN  Cardinality({i \in DOMAIN list : list[i] = DHCPv4MissingIP}) = 2

(***************************************************************************)
(* C26                                                                     *)
(***************************************************************************)
PrettyPrinted == call = "pretty_print"

\* C26: NetplanStatus.pretty_print in diff mode completes without an error
\* for every report get_diff can return, and shows each declared id of
\* missing_interfaces_system as a MISSING interface.
C26_PrettyPrintCompletes ==
    PrettyPrinted =>
        /\ raised = None
        /\ Range(output) = Range(report.missing_interfaces_system)

\* What the code does: missing_interfaces_system is a list, so the loop over
\* its items() raises AttributeError for every report, before any MISSING line.
PrettyPrintRaises ==
    PrettyPrinted => raised = "AttributeError" /\ output = <<>>

\* pretty_print raised on a report that names no missing interface at all
C26_RaisedOnEmptyList ==
    /\ PrettyPrinted
    /\ raised = "AttributeError"
    /\ report.missing_interfaces_system = <<>>
    /\ report.interfaces # EmptyDict

(***************************************************************************)
(* C27                                                                     *)
(***************************************************************************)
\* the lookups of the status command by ifname return the values of entry
LookupsReturn(ifname, entry) ==
    /\ _get_interface_diff(report, ifname)
           = IF entry.system_state # EmptyDict \/ entry.netplan_state # EmptyDict
             THEN entry
             ELSE [name |-> None, system_state |-> EmptyDict, netplan_state |-> EmptyDict]
    /\ _get_missing_system_addresses(report, ifname)
           = Get(entry.system_state, "missing_addresses", <<>>)
    /\ _get_missing_netplan_addresses(report, ifname)
           = Get(entry.netplan_state, "missing_addresses", <<>>)
    /\ _get_missing_system_routes(report, ifname)
           = Get(entry.system_state, "missing_routes", <<>>)
    /\ _get_missing_netplan_routes(report, ifname)
           = Get(entry.netplan_state, "missing_routes", <<>>)
    /\ _get_missing_system_macaddress(report, ifname)
           = Get(entry.system_state, "missing_macaddress", None)
    /\ _get_missing_netplan_macaddress(report, ifname)
           = Get(entry.netplan_state, "missing_macaddress", None)
    /\ _is_missing_dhcp4_address(report, ifname)
           = Get(entry.system_state, "missing_dhcp4_address", FALSE)
    /\ _is_missing_dhcp6_address(report, ifname)
           = Get(entry.system_state, "missing_dhcp6_address", FALSE)

\* C27: for every live interface that has an entry in the report, the
\* per-interface lookups of the status command called with the interface's
\* name return the values of that interface's entry, also when the name
\* differs from the declared-id.
C27_LookupsByName ==
    Returned => \A item \in Reported : LookupsReturn(item[1], EntryOf(item))

\* What the code does: the lookups read report.interfaces under the name, which
\* is the key of the interface's entry only when the name is the declared-id.
LookupsByNameThatIsTheId ==
    Returned =>
        \A item \in Reported :
            /\ item[1] = LiveId(item) => LookupsReturn(item[1], EntryOf(item))
            /\ item[1] \notin DOMAIN report.interfaces =>
                   LookupsReturn(item[1],
                       [name |-> None, system_state |-> EmptyDict,
                        netplan_state |-> EmptyDict])

\* an interface whose name is not its declared-id has differences in its
\* entry and the lookups by its name return none of them
C27_LookupMisses ==
    /\ Returned
    /\ \E item \in Reported :
          /\ item[1] # LiveId(item)
          /\ Get(EntryOf(item).netplan_state, "missing_addresses", <<>>) # <<>>
          /\ _get_missing_netplan_addresses(report, item[1]) = <<>>

(***************************************************************************)
(* C28                                                                     *)
(***************************************************************************)
NameserverKeys == {"missing_nameservers", "missing_search_domains"}

\* C28: every nameserver and search-domain difference get_diff records for an
\* interface is returned by the nameserver and search-domain accessors of the
\* status command for that interface (taken here under the key of its entry):
\* they return the missing_nameservers and missing_search_domains lists.
C28_NameserverAccessors ==
    Returned =>
        \A id \in DOMAIN report.interfaces :
            LET entry == report.interfaces[id]
            IN  /\ _get_missing_system_nameservers(report, id)
                       = Get(entry.system_state, "missing_nameservers", <<>>)
                /\ _get_missing_netplan_nameservers(report, id)
                       = Get(entry.netplan_state, "missing_nameservers", <<>>)
                /\ _get_missing_system_search(report, id)
                       = Get(entry.system_state, "missing_search_domains", <<>>)
                /\ _get_missing_netplan_search(report, id)
                       = Get(entry.netplan_state, "missing_search_domains", <<>>)

\* What the code does: the accessors read the keys
\* missing_nameservers_addresses and missing_nameservers_search, which no
\* report has, and return the empty default for every interface.
NameserverAccessorsReturnNothing ==
    Returned =>
        \A ifname \in DOMAIN report.interfaces \cup LiveNamesOf :
            /\ _get_missing_system_nameservers(report, ifname) = <<>>
            /\ _get_missing_netplan_nameservers(report, ifname) = <<>>
            /\ _get_missing_system_search(report, ifname) = <<>>
            /\ _get_missing_netplan_search(report, ifname) = <<>>

\* an entry records nameserver or search-domain differences and the accessors
\* called with its key return none
C28_DifferencesNotReturned ==
    /\ Returned
    /\ \E id \in DOMAIN report.interfaces :
          /\ \E side \in {"system_state", "netplan_state"} :
                DOMAIN report.interfaces[id][side] \cap NameserverKeys # {}
          /\ _get_missing_system_nameservers(report, id) = <<>>
          /\ _get_missing_netplan_nameservers(report, id) = <<>>

(***************************************************************************)
(* C29                                                                     *)
(***************************************************************************)
\* a field of a live route record is populated: present and truthy
Populated(route, key) ==
    /\ key \in DOMAIN route
    /\ IF key \in IntKeys THEN route[key] # 0 ELSE route[key] \notin {None, ""}

\* the attribute of the normalized route a key of the record goes to
AttributeOf(key) == IF key = "from" THEN "from_addr" ELSE key

\* the normalized route holds the value of the record under key
Copied(route, key, normalized) ==
    normalized[AttributeOf(key)]
        = IF key = "table" THEN TableNumber(route[key]) ELSE route[key]

\* two records have the same populated fields with the same values
SamePopulatedFields(a, b) ==
    \A key \in Range(RouteKeys) :
        /\ Populated(a, key) <=> Populated(b, key)
        /\ Populated(a, key) => a[key] = b[key]

\* C29: normalizing a live route record copies exactly its populated (truthy)
\* fields among family, to, via, from (as from_addr), metric, scope, type,
\* protocol and table (table resolved to its numeric id) and leaves every
\* absent or falsy field unset, so two live records that differ only in a
\* field being absent versus falsy normalize to equal routes.
C29_PopulatedFieldsCopied ==
    call = "get_full_state" =>
        /\ DOMAIN NormalizedRoutes = DOMAIN RawRoutes
        /\ \A i \in DOMAIN RawRoutes : \A key \in Range(RouteKeys) :
              IF Populated(RawRoutes[i], key)
              THEN Copied(RawRoutes[i], key, NormalizedRoutes[i])
              ELSE NormalizedRoutes[i][AttributeOf(key)]
                       = RouteDefaults[AttributeOf(key)]
        /\ \A i, j \in DOMAIN RawRoutes :
              SamePopulatedFields(RawRoutes[i], RawRoutes[j])
                  => NormalizedRoutes[i] = NormalizedRoutes[j]

\* get_full_state has normalized a record of metric 0 and the same record
\* without a metric to one route, which differs from that of the record of
\* metric 100
C29_Witness ==
    /\ call = "get_full_state"
    /\ \E i, j \in DOMAIN RawRoutes :
          /\ i # j
          /\ "metric" \in DOMAIN RawRoutes[i] /\ RawRoutes[i].metric = 0
          /\ "metric" \notin DOMAIN RawRoutes[j]
          /\ SamePopulatedFields(RawRoutes[i], RawRoutes[j])
          /\ NormalizedRoutes[i] = NormalizedRoutes[j]
          /\ NormalizedRoutes[i] # _system_route_to_netplan(PopulatedRoute)

(***************************************************************************)
(* C30                                                                     *)
(***************************************************************************)
\* the system_state of the container of a live interface
FullSystemState(item) == full_state.interfaces[item[1]].system_state

\* 'ip/prefix' of a live address
AddressKey(addr) == <<addr.ip, Get(addr.data, "prefix", NoPrefix)>>

\* C30: get_full_state applies no heuristic: for a live interface whose name
\* equals no unmatched declared id, its system_state lists every live address
\* as 'ip/prefix' with its flags (dhcp- and link-flagged ones included), every
\* live nameserver and search domain, and every live route in normalized form
\* (link-scope, dhcp, ra and link-local routes included); the
\* 'netplan-global-state' entry of the live snapshot is never an interface.
C30_FullStateUnfiltered ==
    call = "get_full_state" =>
        /\ "netplan-global-state" \notin DOMAIN full_state.interfaces
        /\ "netplan-global-state" \notin Range(full_state.order)
        /\ \A item \in Live :
              item[1] \notin UnmatchedIds =>
                  LET state == FullSystemState(item)
                      addresses == Get(state, "addresses", EmptyDict)
                      routes == Get(item[2], "routes", <<>>)
                  IN  /\ DOMAIN addresses = {AddressKey(addr) : addr \in LiveAddresses(item)}
                      /\ \A addr \in LiveAddresses(item) :
                             AddressFlags(addr) # {} =>
                                 AddressFlags(addr) \subseteq addresses[AddressKey(addr)].flags
                      /\ Get(state, "nameservers", <<>>) = Get(item[2], "dns_addresses", <<>>)
                      /\ Get(state, "search", <<>>) = Get(item[2], "dns_search", <<>>)
                      /\ Get(state, "routes", <<>>)
                             = [i \in DOMAIN routes |-> _system_route_to_netplan(routes[i])]

\* get_full_state lists a dhcp-flagged and a link-flagged address of a live
\* interface, each with its flag
C30_Witness ==
    /\ call = "get_full_state"
    /\ \E item \in Live :
          \E a, b \in LiveAddresses(item) :
              /\ AddressFlags(a) = {"dhcp"} /\ AddressFlags(b) = {"link"}
              /\ FullSystemState(item).addresses[AddressKey(a)].flags = {"dhcp"}
              /\ FullSystemState(item).addresses[AddressKey(b)].flags = {"link"}

\* get_full_state lists a link-scope route and a route installed from a
\* router advertisement of a live interface
C30_WitnessRoutes ==
    /\ call = "get_full_state"
    /\ \E item \in Live :
          \E r, s \in Range(Get(FullSystemState(item), "routes", <<>>)) :
              r.scope = "link" /\ s.protocol = "ra"

====
